---- MODULE Spec2Model ----
(***************************************************************************)
(* Hashtag Intelligence Engine of intellab-caption-tool.                   *)
(*                                                                         *)
(* Three request handlers are modelled, each from its source:              *)
(*   - the paginated search   GET  (src/unnamed/part_002, lines 201-417)   *)
(*   - the discover           GET  (src/unnamed/part_002, lines 1-199)     *)
(*   - the generation         POST (src/app/api/tools/hashtags/route.ts)   *)
(*                                                                         *)
(* Text is a sequence of one-character strings, so that case folding,      *)
(* stripping, splitting and substring search are computed, not assumed.    *)
(* A JavaScript number that may be NaN is a record [nan, v].               *)
(***************************************************************************)
EXTENDS Integers, Sequences, FiniteSets, TLC

(***************************************************************************)
(* Bounds of the model                                                     *)
(***************************************************************************)
\* largest number of posts the provider puts in one page of the search
MaxPageLen == 210
\* largest value of the `sample` query parameter
MaxSample == 201
\* largest number of tokens a generated topic is assembled from
MaxTopicWords == 2

\* the longest text norm is called with
MaxNormLen == 3

(***************************************************************************)
(* Generic sequence helpers                                                *)
(***************************************************************************)
\* Op applied to the value of e: e is evaluated once, whatever the number of
\* times Op uses its argument (const x = e; ... of the source)
With(e, Op(_)) == CHOOSE r \in {Op(v) : v \in {e}} : TRUE

Range(s) == {s[i] : i \in 1..Len(s)}

Take(s, n) == IF n <= 0 THEN <<>> ELSE SubSeq(s, 1, IF n < Len(s) THEN n ELSE Len(s))

Drop(s, n) == IF n >= Len(s) THEN <<>> ELSE SubSeq(s, n + 1, Len(s))

Contains(s, x) == \E i \in 1..Len(s) : s[i] = x

RECURSIVE FlatRange(_, _, _)
\* ss[lo] \o ... \o ss[hi]
FlatRange(ss, lo, hi) ==
  IF lo > hi THEN <<>>
  ELSE IF lo = hi THEN ss[lo]
  ELSE FlatRange(ss, lo, (lo + hi) \div 2) \o FlatRange(ss, (lo + hi) \div 2 + 1, hi)

\* Array.prototype.flat of a sequence of sequences
FlatCat(ss) == FlatRange(ss, 1, Len(ss))

NoDup(s) == \A i, j \in 1..Len(s) : i # j => s[i] # s[j]

Min2(a, b) == IF a <= b THEN a ELSE b

Max2(a, b) == IF a >= b THEN a ELSE b

\* Array.prototype.slice(0, n) for an integer n (negative n counts from the end)
SliceTo(s, n) == IF n >= 0 THEN Take(s, n) ELSE Take(s, Len(s) + n)

\* Math.round(a / b) for integers a and b > 0: halves round towards +infinity
RoundDiv(a, b) == (2 * a + b) \div (2 * b)

\* Math.ceil(a / b) for integers a >= 0 and b > 0
CeilDiv(a, b) == (a + b - 1) \div b

RECURSIVE SumSeq(_)
SumSeq(s) == IF s = <<>> THEN 0 ELSE Head(s) + SumSeq(Tail(s))

\* the elements s[i] of s for which keep[i] holds, in order
SelectIdx(s, keep) ==
  With(keep, LAMBDA flags :
    With(SelectSeq([i \in 1..Len(flags) |-> i], LAMBDA i : flags[i]), LAMBDA idx :
      With(s, LAMBDA items : [k \in 1..Len(idx) |-> items[idx[k]]])))

(***************************************************************************)
(* JavaScript numbers that may be NaN                                      *)
(***************************************************************************)
Num(n) == [nan |-> FALSE, v |-> n]

NaN == [nan |-> TRUE, v |-> 0]

\* Math.min / Math.max: NaN if either argument is NaN
MathMin(a, b) == IF a.nan \/ b.nan THEN NaN ELSE Num(Min2(a.v, b.v))

MathMax(a, b) == IF a.nan \/ b.nan THEN NaN ELSE Num(Max2(a.v, b.v))

\* x < y and x >= y of JavaScript: false as soon as one side is NaN
JsLess(a, b) == ~a.nan /\ ~b.nan /\ a.v < b.v

JsGeq(a, b) == ~a.nan /\ ~b.nan /\ a.v >= b.v

\* Array.prototype.slice(0, n): ToIntegerOrInfinity(NaN) is 0
JsSliceTo(s, n) == IF n.nan THEN <<>> ELSE SliceTo(s, n.v)

\* A query parameter holding a number: absent, an integer literal, or text
\* that is no number.  Number(text) of the latter is NaN.
Absent == [k |-> "absent", v |-> 0]

Given(n) == [k |-> "num", v |-> n]

Garbage == [k |-> "garbage", v |-> 0]

\* Number(param || dflt), dflt being the Number of the default's text
NumberOr(param, dflt) ==
  CASE param.k = "absent" -> dflt
    [] param.k = "num" -> Num(param.v)
    [] OTHER -> NaN

(***************************************************************************)
(* Text: sequences of characters                                           *)
(***************************************************************************)
UpperSeq ==
  <<"A", "B", "C", "D", "E", "F", "G", "H", "I", "J", "K", "L", "M",
    "N", "O", "P", "Q", "R", "S", "T", "U", "V", "W", "X", "Y", "Z">>

LowerSeq ==
  <<"a", "b", "c", "d", "e", "f", "g", "h", "i", "j", "k", "l", "m",
    "n", "o", "p", "q", "r", "s", "t", "u", "v", "w", "x", "y", "z">>

UpperLetters == {UpperSeq[i] : i \in 1..Len(UpperSeq)}

LowerLetters == {LowerSeq[i] : i \in 1..Len(LowerSeq)}

Digits == {"0", "1", "2"}

Spaces == {" ", "\t"}

IsLetter(c) == c \in UpperLetters \cup LowerLetters

IsDigit(c) == c \in Digits

IsSpace(c) == c \in Spaces

\* String.prototype.toLowerCase, character by character
ToLowerChar(c) ==
  IF c \in UpperLetters
  THEN LowerSeq[CHOOSE i \in 1..Len(UpperSeq) : UpperSeq[i] = c]
  ELSE c

\* String.prototype.toUpperCase, for one character
ToUpperChar(c) ==
  IF c \in LowerLetters
  THEN UpperSeq[CHOOSE i \in 1..Len(LowerSeq) : LowerSeq[i] = c]
  ELSE c

ToLower(s) == [i \in 1..Len(s) |-> ToLowerChar(s[i])]

\* String.prototype.includes
Includes(hay, needle) ==
  \E i \in 0..(Len(hay) - Len(needle)) :
    \A j \in 1..Len(needle) : hay[i + j] = needle[j]

EndsWith(s, suf) ==
  /\ Len(s) >= Len(suf)
  /\ SubSeq(s, Len(s) - Len(suf) + 1, Len(s)) = suf

RECURSIVE TrimLeft(_)
TrimLeft(s) == IF s # <<>> /\ IsSpace(Head(s)) THEN TrimLeft(Tail(s)) ELSE s

RECURSIVE TrimRight(_)
TrimRight(s) ==
  IF s # <<>> /\ IsSpace(s[Len(s)]) THEN TrimRight(SubSeq(s, 1, Len(s) - 1)) ELSE s

\* String.prototype.trim
Trim(s) == TrimRight(TrimLeft(s))

\* "<e'>" stands for the precomposed letter e-acute, "<'>" for the combining
\* acute accent its canonical decomposition ends with
AccentedLetters == {"<e'>"}

IsLetterOrDigit(c) == IsLetter(c) \/ c \in AccentedLetters \/ IsDigit(c)

\* String.prototype.normalize("NFKD"), character by character.  "<TM>"
\* stands for the trade mark sign U+2122: it is a symbol, no letter, that
\* toLowerCase leaves alone and whose compatibility decomposition is "TM".
Decompose(c) ==
  CASE c = "<e'>" -> <<"e", "<'>">>
    [] c = "<TM>" -> <<"T", "M">>
    [] OTHER -> <<c>>

NFKD(s) == FlatCat([i \in 1..Len(s) |-> Decompose(s[i])])

RECURSIVE SplitAcc(_, _, _, _)
\* the maximal runs of non-separator characters of s[i..], `cur` being the run
\* in progress and sep the set of separator characters
SplitAcc(s, i, cur, sep) ==
  IF i > Len(s) THEN (IF cur = <<>> THEN <<>> ELSE <<cur>>)
  ELSE IF s[i] \in sep
  THEN (IF cur = <<>> THEN <<>> ELSE <<cur>>) \o SplitAcc(s, i + 1, <<>>, sep)
  ELSE SplitAcc(s, i + 1, Append(cur, s[i]), sep)

\* s.split(separator run).filter(Boolean)
SplitOn(s, sep) == SplitAcc(s, 1, <<>>, sep)

RECURSIVE JoinWith(_, _)
\* words.join(glue)
JoinWith(words, glue) ==
  IF words = <<>> THEN <<>>
  ELSE IF Len(words) = 1 THEN words[1]
  ELSE words[1] \o glue \o JoinWith(Tail(words), glue)

\* Array.from(new Set(arr)): first occurrences, in order
dedupe(arr) ==
  With(arr, LAMBDA a :
    SelectIdx(a, [i \in 1..Len(a) |-> \A j \in 1..(i - 1) : a[j] # a[i]]))

(***************************************************************************)
(* Stable sort, descending by a tuple of integer keys compared in order     *)
(* (Array.prototype.sort with the comparator (a, b) => (b.k1 - a.k1) ||    *)
(* (b.k2 - a.k2); the sort of Node is stable)                              *)
(***************************************************************************)
RECURSIVE LexGeq(_, _)
\* key a sorts before key b, or they compare equal
LexGeq(a, b) ==
  IF a = <<>> THEN TRUE
  ELSE IF Head(a) # Head(b) THEN Head(a) > Head(b)
  ELSE LexGeq(Tail(a), Tail(b))

\* items reordered by keys[i] descending, ties in their order in items:
\* item i lands after the items with a greater key and the earlier items
\* with an equal key
\* a descending sort that puts the later of two equal keys first
SortDescTiesReversed(items, keys) ==
  With(keys, LAMBDA ks :
    With([i \in 1..Len(ks) |->
            1 + Cardinality({j \in 1..Len(ks) :
                               IF ks[j] = ks[i] THEN j > i ELSE LexGeq(ks[j], ks[i])})],
         LAMBDA rank :
           With(items, LAMBDA it :
             [k \in 1..Len(it) |-> it[CHOOSE i \in 1..Len(it) : rank[i] = k]])))

StableSortDesc(items, keys) ==
  With(keys, LAMBDA ks :
    With([i \in 1..Len(ks) |->
            1 + Cardinality({j \in 1..Len(ks) : IF ks[j] = ks[i] THEN j < i
                                                ELSE LexGeq(ks[j], ks[i])})],
         LAMBDA rank :
           With(items, LAMBDA it :
             [k \in 1..Len(it) |-> it[CHOOSE i \in 1..Len(it) : rank[i] = k]])))

(***************************************************************************)
(* JSON values of a provider post                                          *)
(***************************************************************************)
JNull == [t |-> "null", v |-> 0, s |-> <<>>]

JNum(n) == [t |-> "num", v |-> n, s |-> <<>>]

JStr(chars) == [t |-> "str", v |-> 0, s |-> chars]

JBool(b) == [t |-> "bool", v |-> IF b THEN 1 ELSE 0, s |-> <<>>]

\* a list of hashtags, or a missing / non-array hashtags field
TagList(tags) == [t |-> "arr", a |-> tags]

NoTagList == [t |-> "null", a |-> <<>>]

\* A post as the provider sends it.  likeVals / commentVals hold the values
\* found under the four resolvable keys extractNumber is given, in its order:
\* likesCount, likes, like_count, edge_media_preview_like.count (resp. the
\* comment keys); likes / comments are the fields discover reads.
MkPost(caption, hashtags, likeVals, commentVals) ==
  [caption |-> caption, hashtags |-> hashtags,
   likeVals |-> likeVals, commentVals |-> commentVals,
   city |-> JNull, country |-> JNull, lang |-> JNull, url |-> JNull]

\* the same post with a location and a language tag
Located(post, city, country, lang) ==
  [post EXCEPT !.city = city, !.country = country, !.lang = lang]

NoVals == <<JNull, JNull, JNull, JNull>>

(***************************************************************************)
(* State                                                                   *)
(***************************************************************************)
VARIABLES
  handler,    \* which entry point this request goes to
  env,        \* process.env: APIFY_DATASET_ID and APIFY_TOKEN
  sReq,       \* search: the query parameters of the request
  sPc,        \* search: position of the handler
  sPage,      \* search: loop variable `page`
  sAttempt,   \* search: argument `attempt` of the running attemptFetch
  sLog,       \* search: every fetch issued, in order, with its outcome
  sTimers,    \* search: attempts whose abort timer is armed
  sMatched,   \* search: matchedPosts
  sSeen,      \* search: every post received from the provider, in order
  sResp,      \* search: the response returned to the caller
  dReq,       \* discover: the query parameters of the request
  dPc,        \* discover: position of the handler
  dLog,       \* discover: every fetch issued
  dFiltered,  \* discover: `filtered`
  dIdx,       \* discover: number of posts of `filtered` already tallied
  dBuckets,   \* discover: `buckets`, a Map kept in insertion order
  dResp,      \* discover: the response returned to the caller
  dThrown,    \* discover: what escaped the handler, "" if nothing did
  gReq,       \* generation: the body of the request
  gRng,       \* generation: the numbers Math.random() returns, times 100
  gPc,        \* generation: position of the handler
  gLimit,     \* generation: `limit`, the maxHashtags given to generateHashtags
  gResp,      \* generation: the response returned to the caller
  uCall,      \* helper call: the function called and its arguments
  uPc,        \* helper call: "start" before the call, "done" after it
  uRet,       \* helper call: what the function returned
  pMounted,   \* page: the component is mounted
  pParams,    \* page: the dependencies of the effect at the last render
  pRuns,      \* page: the runs of the effect: alive, position, dependencies
  pData,      \* page: the state `data`, with the run that set it
  pErr,       \* page: the state `err`, with the run that set it
  pLoading,   \* page: the state `loading`
  pWrote      \* page: the run that took the last step and the state it set

searchVars == <<sReq, sPc, sPage, sAttempt, sLog, sTimers, sMatched, sSeen, sResp>>

genVars == <<gReq, gRng, gPc, gLimit, gResp>>

discoverVars == <<dReq, dPc, dLog, dFiltered, dIdx, dBuckets, dResp, dThrown>>

unitVars == <<uCall, uPc, uRet>>

pageVars == <<pMounted, pParams, pRuns, pData, pErr, pLoading, pWrote>>

(***************************************************************************)
(* Paginated search: GET of the search route                               *)
(***************************************************************************)
pageLimit == 200

timeoutMs == 10000

TimeoutStepMs == 2000

BackoffBaseMs == 500

LastRetryAttempt == 2

DefaultCount == 20

MaxCount == 200

MinSample == 50

MaxSampleCap == 5000

Instagram == <<"i", "n", "s", "t", "a", "g", "r", "a", "m">>

\* const count = Math.max(1, Math.min(Number(get("count") || "20"), 200))
SearchCount(req) ==
  MathMax(Num(1), MathMin(NumberOr(req.count, Num(DefaultCount)), Num(MaxCount)))

\* const sample = Math.max(50, Math.min(Number(get("sample") || String(count * 10)), 5000))
SearchSample(req) ==
  LET count == SearchCount(req)
      dflt == IF count.nan THEN NaN ELSE Num(count.v * 10)
  IN MathMax(Num(MinSample), MathMin(NumberOr(req.sample, dflt), Num(MaxSampleCap)))

\* a page count that always asks for one page more than sample / pageLimit
MaxPagesFloorPlusOne(sample) ==
  IF sample.nan THEN NaN ELSE Num((sample.v \div pageLimit) + 1)

\* const maxPages = Math.ceil(sample / pageLimit)
MaxPages(sample) == IF sample.nan THEN NaN ELSE Num(CeilDiv(sample.v, pageLimit))

\* a platform resolution that falls back to instagram, as discover does
SearchPlatformFallback(req) ==
  IF ToLower(req.platform) \in {Instagram, <<"t", "i", "k", "t", "o", "k">>}
  THEN ToLower(req.platform) ELSE Instagram

\* (get("platform") || "instagram").toLowerCase()
SearchPlatform(req) == ToLower(IF req.platform = <<>> THEN Instagram ELSE req.platform)

\* a dataset identifier that is the token
SearchDatasetIdIsToken(e, req) == e.APIFY_TOKEN

\* process.env.APIFY_DATASET_ID || get("datasetId") || null  (<<>> is null)
SearchDatasetId(e, req) ==
  IF e.APIFY_DATASET_ID # <<>> THEN e.APIFY_DATASET_ID ELSE req.datasetId

\* process.env.APIFY_TOKEN || null
SearchToken(e) == e.APIFY_TOKEN

\* 500 * Math.pow(2, attempt)
BackoffDelay(attempt) == BackoffBaseMs * (2 ^ attempt)

\* timeoutMs + attempt * 2000
AttemptTimeout(attempt) == timeoutMs + attempt * TimeoutStepMs

\* a retry test that also retries client errors
RetryableAnyError(status) == status >= 400

\* res.status >= 500 || res.status === 429
Retryable(status) == status >= 500 \/ status = 429

\* Response.ok
ResOk(status) == status >= 200 /\ status <= 299

\* String(post?.caption || "").toLowerCase()
CaptionLower(post) == IF post.caption.t = "str" THEN ToLower(post.caption.s) ELSE <<>>

\* Array.isArray(post?.hashtags) ? post.hashtags : []
RawTags(post) == IF post.hashtags.t = "arr" THEN post.hashtags.a ELSE <<>>

\* caption.includes(needle) || tags.some(t => String(t || "").toLowerCase().includes(needle))
PostMatches(post, needle) ==
  \/ With(CaptionLower(post), LAMBDA caption : Includes(caption, needle))
  \/ With(RawTags(post), LAMBDA tags :
        \E i \in 1..Len(tags) : With(ToLower(tags[i]), LAMBDA t : Includes(t, needle)))

\* the posts of one page pushed onto matchedPosts, in page order
MatchPage(data, needle) ==
  With(needle, LAMBDA n : SelectSeq(data, LAMBDA post : PostMatches(post, n)))

DigitVal(c) == CASE c = "0" -> 0 [] c = "1" -> 1 [] c = "2" -> 2 [] OTHER -> 0

RECURSIVE DecimalValue(_, _)
DecimalValue(s, acc) ==
  IF s = <<>> THEN acc ELSE DecimalValue(Tail(s), 10 * acc + DigitVal(Head(s)))

\* v.replace(/[^0-9.-]/g, "")
StripNonNumeric(s) ==
  SelectIdx(s, [i \in 1..Len(s) |-> IsDigit(s[i]) \/ s[i] \in {".", "-"}])

\* Number(text) for text made of digits, "." and "-": the empty text is 0, an
\* integer literal its value, anything else NaN (the texts of this model hold
\* no fractional literal)
NumberOfText(s) ==
  LET digitsOnly(x) == x # <<>> /\ \A i \in 1..Len(x) : IsDigit(x[i])
  IN CASE s = <<>> -> Num(0)
       [] digitsOnly(s) -> Num(DecimalValue(s, 0))
       [] Head(s) = "-" /\ digitsOnly(Tail(s)) -> Num(0 - DecimalValue(Tail(s), 0))
       [] OTHER -> NaN

Unknown == [known |-> FALSE, v |-> 0]

Known(n) == [known |-> TRUE, v |-> n]

RECURSIVE ExtractFrom(_, _)
\* the loop of extractNumber over the values under its keys, from key i on
ExtractFrom(vals, i) ==
  IF i > Len(vals) THEN Unknown
  ELSE LET v == vals[i]
           parsed == NumberOfText(StripNonNumeric(v.s))
       IN CASE v.t = "num" -> Known(v.v)
            [] i < Len(vals) /\ v.t = "str" /\ Trim(v.s) # <<>> /\ ~parsed.nan ->
                 Known(parsed.v)
            [] OTHER -> ExtractFrom(vals, i + 1)

\* extractNumber(post, keys): the first usable number, or null
extractNumber(vals) == ExtractFrom(vals, 1)

\* String(t || "").trim().replace(/^#/, "").toLowerCase()
NormalizeTag(t) ==
  With(Trim(t), LAMBDA trimmed :
    ToLower(IF trimmed # <<>> /\ Head(trimmed) = "#" THEN Tail(trimmed) ELSE trimmed))

\* rawTags.map(...).filter(Boolean)
NormalizedTags(post) ==
  With(RawTags(post), LAMBDA raw :
    With([i \in 1..Len(raw) |-> NormalizeTag(raw[i])], LAMBDA mapped :
      SelectIdx(mapped, [i \in 1..Len(mapped) |-> mapped[i] # <<>>])))

\* the entry pushed onto postsOut for one matched post
NormalizePost(post) ==
  [caption |-> post.caption,
   hashtags |-> NormalizedTags(post),
   likes |-> extractNumber(post.likeVals),
   comments |-> extractNumber(post.commentVals)]

\* map.get(key) || {0, ...}; counters bumped; map.set(key, cur).  The Map is a
\* sequence of entries in insertion order.
AggAddTag(map, key, likes, comments) ==
  With(<<map, key>>, LAMBDA mk :
    With({i \in 1..Len(mk[1]) : mk[1][i].key = mk[2]}, LAMBDA hit :
      With(IF hit = {} THEN [key |-> mk[2], posts |-> 0, likesSum |-> 0,
                             commentsSum |-> 0, likesN |-> 0, commentsN |-> 0]
           ELSE mk[1][CHOOSE i \in hit : TRUE], LAMBDA cur :
        With([key |-> mk[2],
              posts |-> cur.posts + 1,
              likesSum |-> IF likes.known THEN cur.likesSum + likes.v ELSE cur.likesSum,
              likesN |-> IF likes.known THEN cur.likesN + 1 ELSE cur.likesN,
              commentsSum |-> IF comments.known THEN cur.commentsSum + comments.v
                              ELSE cur.commentsSum,
              commentsN |-> IF comments.known THEN cur.commentsN + 1 ELSE cur.commentsN],
             LAMBDA new :
               IF hit = {} THEN Append(mk[1], new)
               ELSE [i \in 1..Len(mk[1]) |-> IF i \in hit THEN new ELSE mk[1][i]]))))

RECURSIVE AggAddTags(_, _, _, _)
AggAddTags(map, tags, likes, comments) ==
  With(tags, LAMBDA ts :
    IF ts = <<>> THEN map
    ELSE With(AggAddTag(map, Head(ts), likes, comments), LAMBDA next :
           AggAddTags(next, Tail(ts), likes, comments)))

RECURSIVE AggRange(_, _, _, _)
\* the aggregation loop over posts[lo..hi], in order, starting from `map`.
\* The range is walked in two halves, the first one to its end before the
\* second begins, which keeps the evaluation shallow on long corpora.
AggRange(map, posts, lo, hi) ==
  With(<<lo, hi, (lo + hi) \div 2>>, LAMBDA r :
    IF r[1] > r[2] THEN map
    ELSE IF r[1] = r[2]
    THEN With(posts[r[1]], LAMBDA post :
           AggAddTags(map, post.hashtags, post.likes, post.comments))
    ELSE With(AggRange(map, posts, r[1], r[3]), LAMBDA first :
           AggRange(first, posts, r[3] + 1, r[2])))

\* for (const post of ...) { for (const t of normalizedTags) {...} }
AggPosts(map, posts) == AggRange(map, posts, 1, Len(posts))

\* Array.from(map.entries()).sort(by posts desc).slice(0, count).map(row)
SearchRows(map, count) ==
  With(map, LAMBDA entries :
    With(JsSliceTo(StableSortDesc(entries, [i \in 1..Len(entries) |-> <<entries[i].posts>>]),
                   count),
         LAMBDA kept :
           [i \in 1..Len(kept) |->
              [hashtag |-> <<"#">> \o kept[i].key,
               posts |-> kept[i].posts,
               avgLikes |-> IF kept[i].likesN # 0
                            THEN Known(RoundDiv(kept[i].likesSum, kept[i].likesN))
                            ELSE Unknown,
               avgComments |-> IF kept[i].commentsN # 0
                               THEN Known(RoundDiv(kept[i].commentsSum, kept[i].commentsN))
                               ELSE Unknown]]))

\* the mean of the non-null averages, the denominator being at least 1
MeanOfKnown(avgs) ==
  With(avgs, LAMBDA a :
    IF Len(a) > 0
    THEN RoundDiv(SumSeq([i \in 1..Len(a) |-> IF a[i].known THEN a[i].v ELSE 0]),
                  Max2(1, Cardinality({i \in 1..Len(a) : a[i].known})))
    ELSE 0)

SearchSummary(rows) ==
  With(rows, LAMBDA r :
    [totalHashtags |-> Len(r),
     totalPosts |-> SumSeq([i \in 1..Len(r) |-> r[i].posts]),
     averageLikes |-> MeanOfKnown([i \in 1..Len(r) |-> r[i].avgLikes]),
     averageComments |-> MeanOfKnown([i \in 1..Len(r) |-> r[i].avgComments])])

(***************************************************************************)
(* Responses of the search route                                           *)
(***************************************************************************)
NoSummary == [totalHashtags |-> 0, totalPosts |-> 0, averageLikes |-> 0, averageComments |-> 0]

\* no response returned yet
NoResp ==
  [status |-> 0, error |-> FALSE, message |-> "", provider |-> "", upstream |-> 0,
   datasetId |-> <<>>, rows |-> <<>>, posts |-> <<>>, summary |-> NoSummary]

\* NextResponse.json({error: true, message, provider?, status?}, {status})
ErrorResp(status, message, provider, upstream) ==
  [NoResp EXCEPT !.status = status, !.error = TRUE, !.message = message,
                 !.provider = provider, !.upstream = upstream]

MsgMissingQuery == "Missing query param 'q'"

MsgNotImplemented == "Platform not implemented. Only 'instagram' is supported at this time."

MsgNotConfigured == "APIFY_DATASET_ID and APIFY_TOKEN must be configured"

MsgUnavailable == "Upstream provider unavailable"

\* lines 329-409: normalize and aggregate matchedPosts.slice(0, sample), build
\* rows and summary, return them with status 200
SearchSuccess(matched, req, e) ==
  With(JsSliceTo(matched, SearchSample(req)), LAMBDA cut :
    With([i \in 1..Len(cut) |-> NormalizePost(cut[i])], LAMBDA postsOut :
      With(SearchRows(AggPosts(<<>>, postsOut), SearchCount(req)), LAMBDA rows :
        [NoResp EXCEPT !.status = 200, !.provider = "Apify",
                       !.datasetId = SearchDatasetId(e, req),
                       !.rows = rows, !.posts = postsOut, !.summary = SearchSummary(rows)])))

\* fetch(url, {signal}) of attemptFetch(attempt) for the page at `page`, with
\* the abort timer armed for it; `after` is the backoff slept before it.
\* `log` and `timers` are the log and the armed timers it is added to.
IssueFetch(log, timers, page, attempt, after) ==
  /\ sLog' = Append(log, [offset |-> page * pageLimit, limit |-> pageLimit,
                          attempt |-> attempt, timeout |-> AttemptTimeout(attempt),
                          after |-> after, outcome |-> "pending", status |-> 0,
                          got |-> "none", n |-> 0,
                          datasetId |-> SearchDatasetId(env, sReq),
                          token |-> SearchToken(env)])
  /\ sTimers' = timers \cup {attempt}
  /\ sPage' = page
  /\ sAttempt' = attempt
  /\ sPc' = "await"

\* the handler returns `resp`
SearchReturn(resp) ==
  /\ sResp' = resp
  /\ sPc' = "done"

\* the last entry of the log gets the outcome of its fetch
LogOutcome(log, outcome, status) ==
  [log EXCEPT ![Len(log)].outcome = outcome, ![Len(log)].status = status]

\* ... and what res.json() found in the body: its kind and its number of items
LogBody(log, body) ==
  [log EXCEPT ![Len(log)].got = IF body.k = "unparseable" THEN "unparseable"
                                ELSE IF body.isArray THEN "array" ELSE "nonarray",
              ![Len(log)].n = Len(body.items)]

\* a configuration check that forgets the dataset identifier
NotConfiguredTokenOnly(e, req) == SearchToken(e) = <<>>

\* if (!datasetId || !token)
NotConfigured(e, req) == SearchDatasetId(e, req) = <<>> \/ SearchToken(e) = <<>>

\* lines 244-283: parameters, validation, configuration, first loop test
SearchBegin ==
  /\ handler = "search"
  /\ UNCHANGED <<discoverVars, genVars, unitVars, pageVars>>
  /\ sPc = "start"
  /\ LET q == Trim(sReq.q)
         platform == SearchPlatform(sReq)
         maxPages == MaxPages(SearchSample(sReq))
     IN IF q = <<>>
        THEN /\ SearchReturn(ErrorResp(400, MsgMissingQuery, "", 0))
             /\ UNCHANGED <<sPage, sAttempt, sLog, sTimers>>
        ELSE IF platform # Instagram
        THEN /\ SearchReturn(ErrorResp(501, MsgNotImplemented, "none", 0))
             /\ UNCHANGED <<sPage, sAttempt, sLog, sTimers>>
        ELSE IF NotConfigured(env, sReq)
        THEN /\ SearchReturn(ErrorResp(500, MsgNotConfigured, "none", 0))
             /\ UNCHANGED <<sPage, sAttempt, sLog, sTimers>>
        ELSE IF JsLess(Num(0), maxPages)
        THEN /\ IssueFetch(sLog, sTimers, 0, 0, 0)
             /\ UNCHANGED sResp
        ELSE /\ SearchReturn(SearchSuccess(sMatched, sReq, env))
             /\ UNCHANGED <<sPage, sAttempt, sLog, sTimers>>
  /\ UNCHANGED <<handler, env, sReq, sMatched, sSeen>>

(***************************************************************************)
(* The provider, as the search sees it                                     *)
(***************************************************************************)
s_cat == <<"c", "a", "t">>

PostCaption ==
  MkPost(JStr(<<"a", " ", "C", "a", "t">>),
         TagList(<<<<" ", "#", "C", "a", "t">>, <<"p", "e", "t", "s">>>>),
         <<JNum(10), JNull, JNull, JNull>>, <<JNull, JNum(2), JNull, JNull>>)

PostTagOnly ==
  MkPost(JNull,
         TagList(<<<<"C", "a", "t", "s">>, <<"#", "c", "a", "t", "s">>>>),
         <<JNull, JStr(<<"1", "2">>), JNull, JNull>>, NoVals)

PostOther ==
  MkPost(JStr(<<"d", "o", "g">>), TagList(<<<<"d", "o", "g">>>>), NoVals, NoVals)

PostNoTags ==
  MkPost(JStr(<<"d", "o", "g">>), NoTagList, <<JNull, JNull, JNull, JNum(1)>>, NoVals)

SmallPage == <<PostCaption, PostOther, PostTagOnly, PostNoTags>>

\* a page as long as the provider makes them, every post matching "cat"
BigPage == [i \in 1..MaxPageLen |-> IF i % 2 = 1 THEN PostCaption ELSE PostTagOnly]

Unparseable == [k |-> "unparseable", isArray |-> FALSE, items |-> <<>>]

NonArray == [k |-> "json", isArray |-> FALSE, items |-> <<>>]

ArrayOf(items) == [k |-> "json", isArray |-> TRUE, items |-> items]

\* what res.json() may find in the body of a 2xx response
\* a tagged post with known likes and comments
PostCatsQuiet ==
  MkPost(JNull, TagList(<<<<"c", "a", "t", "s">>>>),
         <<JNum(0), JNull, JNull, JNull>>, <<JNum(4), JNull, JNull, JNull>>)

\* a tagged post without any likes or comments value
PostCatsBlind == MkPost(JNull, TagList(<<<<"c", "a", "t", "s">>>>), NoVals, NoVals)

\* a page whose first post lists its tag twice
DupPage == <<PostTagOnly, PostCatsQuiet, PostCatsBlind>>

SearchBodies ==
  {Unparseable, NonArray, ArrayOf(<<>>), ArrayOf(SmallPage), ArrayOf(BigPage), ArrayOf(DupPage)}

\* the HTTP statuses the provider answers with
Statuses == {200, 404, 429, 503}

(***************************************************************************)
(* Paginated search: the fetch loop                                        *)
(***************************************************************************)
\* a loop exit that forgets the empty page
StopsLoopNonArrayOnly(body) == ~body.isArray

\* if (!Array.isArray(data) || data.length === 0) break;
StopsLoop(body) == ~body.isArray \/ Len(body.items) = 0

\* a loop that never stops early
EnoughMatchedNever(matched, sample) == FALSE

\* if (matchedPosts.length >= sample) break;
EnoughMatched(matched, sample) == JsGeq(Num(Len(matched)), sample)

\* lines 306-326, once attemptFetch has returned `res` with status `status`
\* and, for a 2xx, res.json() has met the body `body`.  Every timer of the
\* attempts of this page has been cleared by the finally blocks.
SearchAfterFetch(status, body) ==
  LET sample == SearchSample(sReq)
      matched == With(sMatched \o MatchPage(body.items, ToLower(Trim(sReq.q))),
                      LAMBDA m : m)
      log == IF ResOk(status) THEN LogBody(LogOutcome(sLog, "response", status), body)
             ELSE LogOutcome(sLog, "response", status)
      return(resp) == /\ SearchReturn(resp)
                      /\ sLog' = log
                      /\ sTimers' = {}
                      /\ UNCHANGED <<sPage, sAttempt>>
  IN IF ~ResOk(status)
     THEN /\ return(ErrorResp(502, MsgUnavailable, "Apify", status))
          /\ UNCHANGED <<sMatched, sSeen>>
     ELSE IF body.k = "unparseable"
     THEN /\ return(ErrorResp(502, MsgUnavailable, "", 0))
          /\ UNCHANGED <<sMatched, sSeen>>
     ELSE IF StopsLoop(body)
     THEN /\ return(SearchSuccess(sMatched, sReq, env))
          /\ UNCHANGED <<sMatched, sSeen>>
     ELSE /\ sMatched' = matched
          /\ sSeen' = sSeen \o body.items
          /\ IF EnoughMatched(matched, sample)
             THEN return(SearchSuccess(matched, sReq, env))
             ELSE IF JsLess(Num(sPage + 1), MaxPages(sample))
             THEN /\ IssueFetch(log, {}, sPage + 1, 0, 0)
                  /\ UNCHANGED sResp
             ELSE return(SearchSuccess(matched, sReq, env))

\* the provider answers the fetch in flight (lines 292-300, then 306-326)
FetchResponds ==
  /\ handler = "search"
  /\ UNCHANGED <<discoverVars, genVars, unitVars, pageVars>>
  /\ sPc = "await"
  /\ \E status \in Statuses :
       IF Retryable(status) /\ sAttempt < LastRetryAttempt
       THEN /\ sPc' = "backoff"
            /\ sLog' = LogOutcome(sLog, "response", status)
            /\ UNCHANGED <<sPage, sAttempt, sTimers, sMatched, sSeen, sResp>>
       ELSE \E body \in (IF ResOk(status) THEN SearchBodies ELSE {NonArray}) :
              SearchAfterFetch(status, body)
  /\ UNCHANGED <<handler, env, sReq>>

\* the backoff sleep is over: attemptFetch(attempt + 1) (lines 295-296)
BackoffElapsed ==
  /\ handler = "search"
  /\ UNCHANGED <<discoverVars, genVars, unitVars, pageVars>>
  /\ sPc = "backoff"
  /\ IssueFetch(sLog, sTimers, sPage, sAttempt + 1, BackoffDelay(sAttempt))
  /\ UNCHANGED <<handler, env, sReq, sMatched, sSeen, sResp>>

\* a handler that retries a rejected fetch as it retries a 5xx
FetchThrowsRetries ==
  /\ handler = "search"
  /\ UNCHANGED <<discoverVars, genVars, unitVars, pageVars>>
  /\ sPc = "await"
  /\ \E cause \in {"error", "abort"} :
       sLog' = LogOutcome(sLog, cause, 0)
  /\ IF sAttempt < LastRetryAttempt
     THEN /\ sPc' = "backoff"
          /\ UNCHANGED <<sTimers, sResp>>
     ELSE /\ sTimers' = {}
          /\ SearchReturn(ErrorResp(502, MsgUnavailable, "", 0))
  /\ UNCHANGED <<handler, env, sReq, sPage, sAttempt, sMatched, sSeen>>

\* the fetch in flight rejects: a network error, or the abort of its timer.
\* Nothing in attemptFetch catches it; the finally blocks clear the timers and
\* the catch of the handler answers (lines 301-303, 410-413)
FetchThrows ==
  /\ handler = "search"
  /\ UNCHANGED <<discoverVars, genVars, unitVars, pageVars>>
  /\ sPc = "await"
  /\ \E cause \in {"error", "abort"} :
       sLog' = LogOutcome(sLog, cause, 0)
  /\ sTimers' = {}
  /\ SearchReturn(ErrorResp(502, MsgUnavailable, "", 0))
  /\ UNCHANGED <<handler, env, sReq, sPage, sAttempt, sMatched, sSeen>>

(***************************************************************************)
(* Requests of the search                                                  *)
(***************************************************************************)
NoText == <<>>

SearchQueries == {NoText, <<" ">>, <<" ", "C", "a", "t">>}

SearchPlatforms ==
  {NoText, <<"I", "n", "s", "t", "a", "g", "r", "a", "m">>,
   <<"t", "i", "k", "t", "o", "k">>, <<"s", "n", "a", "p", "c", "h", "a", "t">>}

SearchCounts == {Absent, Given(1), Garbage}

SearchSamples == {Absent, Given(0), Given(MaxSample), Garbage}

DatasetIds == {NoText, <<"d", "s">>}

Tokens == {NoText, <<"t", "o", "k">>}

SearchRequests ==
  [q : SearchQueries, platform : SearchPlatforms, count : SearchCounts,
   sample : SearchSamples, datasetId : DatasetIds]

Envs == [APIFY_DATASET_ID : DatasetIds, APIFY_TOKEN : Tokens]

\* discover trims what it reads from the environment
DiscoverEnvs == [APIFY_DATASET_ID : DatasetIds, APIFY_TOKEN : Tokens \cup {<<" ">>}]

SearchNext == SearchBegin \/ FetchResponds \/ BackoffElapsed \/ FetchThrows

(***************************************************************************)
(* Discover: text helpers of the discover route                            *)
(***************************************************************************)
DEFAULT_LIMIT == 20

MaxLimit == 100

ProviderPage == 1000

RECURSIVE SquashFrom(_, _, _, _)
\* s[i..] with every maximal run of characters marked in `bad` replaced by one
\* space; inRun tells that s[i-1] belongs to such a run
SquashFrom(s, bad, i, inRun) ==
  IF i > Len(s) THEN <<>>
  ELSE IF bad[i]
  THEN (IF inRun THEN <<>> ELSE <<" ">>) \o SquashFrom(s, bad, i + 1, TRUE)
  ELSE <<s[i]>> \o SquashFrom(s, bad, i + 1, FALSE)

\* a character norm keeps: letter, digit, whitespace, # or _
NormKeeps(c) == IsLetterOrDigit(c) \/ IsSpace(c) \/ c \in {"#", "_"}

\* norm(s): lower-case, NFKD, runs of other characters to " ", runs of
\* whitespace to " ", trim
norm(s) ==
  LET folded == NFKD(ToLower(s))
      cleaned == SquashFrom(folded, [i \in 1..Len(folded) |-> ~NormKeeps(folded[i])], 1, FALSE)
      collapsed == SquashFrom(cleaned, [i \in 1..Len(cleaned) |-> IsSpace(cleaned[i])], 1, FALSE)
  IN Trim(collapsed)

\* a character of a hashtag body: [\p{L}\p{N}_]
TagChar(c) == IsLetterOrDigit(c) \/ c = "_"

RECURSIVE TagRunEnd(_, _)
\* the index of the last character of the run of tag characters starting at i
TagRunEnd(s, i) == IF i < Len(s) /\ TagChar(s[i + 1]) THEN TagRunEnd(s, i + 1) ELSE i

RECURSIVE TagsFrom(_, _)
\* the matches of /#([\p{L}\p{N}_]+)/gu in s[i..], lower-cased, in order
TagsFrom(s, i) ==
  IF i >= Len(s) THEN <<>>
  ELSE IF s[i] = "#" /\ TagChar(s[i + 1])
  THEN <<ToLower(SubSeq(s, i + 1, TagRunEnd(s, i + 1)))>> \o TagsFrom(s, TagRunEnd(s, i + 1) + 1)
  ELSE TagsFrom(s, i + 1)

\* extractTagsFromCaption(caption): the Set of the matches, in insertion order
extractTagsFromCaption(caption) == dedupe(TagsFrom(caption, 1))

\* typeof n === "number" && isFinite(n) ? n : 0, on the value under `likes`
likeNum(post) == IF post.likeVals[2].t = "num" THEN post.likeVals[2].v ELSE 0

\* the same on the value under `comments`
comNum(post) == IF post.commentVals[2].t = "num" THEN post.commentVals[2].v ELSE 0

\* it.caption || "" and the like: the text of a string field, "" otherwise
TextOf(field) == IF field.t = "str" THEN field.s ELSE <<>>

\* getEnv(k): process.env[k]?.trim() || ""
getEnv(value) == Trim(value)

\* Math.max(1, Math.min(Number(get("limit") || get("count")) || DEFAULT_LIMIT, 100))
DiscoverLimit(req) ==
  LET param == IF req.limit.k # "absent" THEN req.limit ELSE req.count
      n == NumberOr(param, Num(0))
      orDefault == IF n.nan \/ n.v = 0 THEN DEFAULT_LIMIT ELSE n.v
  IN Max2(1, Min2(orDefault, MaxLimit))

\* (get("region") || "global").toLowerCase()
DiscoverRegion(req) ==
  ToLower(IF req.region = <<>> THEN <<"g", "l", "o", "b", "a", "l">> ELSE req.region)

\* (get("lang") || "").toLowerCase()
DiscoverLang(req) == ToLower(req.lang)

\* (it.hashtags ?? extractTagsFromCaption(caption)).map(t => t.toLowerCase())
TagsOf(post, caption) ==
  LET tags == IF post.hashtags.t = "arr" THEN post.hashtags.a
              ELSE extractTagsFromCaption(caption)
  IN [i \in 1..Len(tags) |-> ToLower(tags[i])]

\* matchesQuery(it), q being norm(qRaw)
matchesQuery(post, q) ==
  LET caption == norm(TextOf(post.caption))
      tags == TagsOf(post, caption)
      qWords == SplitOn(q, {" "})
      capWords == SplitOn(caption, Spaces)
  IN \/ q = <<>>
     \/ \E i \in 1..Len(qWords) :
          \/ Contains(tags, qWords[i])
          \/ Includes(caption, <<"#">> \o qWords[i])
          \/ Contains(capWords, qWords[i])

\* matchesRegion(it)
matchesRegion(post, region) ==
  \/ region = <<"g", "l", "o", "b", "a", "l">>
  \/ Includes(norm(TextOf(post.city)), region)
  \/ Includes(norm(TextOf(post.country)), region)

\* matchesLang(it)
matchesLang(post, lang) ==
  \/ lang = <<>>
  \/ ToLower(TextOf(post.lang)) = lang

\* raw.filter(it => matchesQuery(it) && matchesRegion(it) && matchesLang(it))
DiscoverFilter(raw, req) ==
  LET keep(post) == /\ matchesQuery(post, norm(Trim(req.q)))
                    /\ matchesRegion(post, DiscoverRegion(req))
                    /\ matchesLang(post, DiscoverLang(req))
  IN SelectSeq(raw, keep)

(***************************************************************************)
(* The provider, as discover sees it, and the requests of discover         *)
(***************************************************************************)
\* largest number of posts in the dataset discover reads
MaxCorpus == 4

Paris == <<"P", "a", "r", "i", "s">>

\* caption with a tag, no hashtags field, located
DPostCat ==
  Located(MkPost(JStr(<<"a", " ", "#", "C", "a", "t", "!">>), NoTagList,
                 <<JNull, JNum(10), JNull, JNull>>, <<JNull, JNum(3), JNull, JNull>>),
          JStr(<<"P", "a", "r", "i", "s">>), JStr(<<"F", "r", "a", "n", "c", "e">>), JStr(<<"e", "n">>))

\* hashtags field, no caption, likes that are no number
DPostTagged ==
  MkPost(JNull, TagList(<<<<"C", "a", "t">>, <<"d", "o", "g">>, NoText>>),
         <<JNull, JStr(<<"1", "2">>), JNull, JNull>>, <<JNull, JNum(2), JNull, JNull>>)

\* a hashtags field that lists the same tag twice, in two spellings
DPostDog ==
  MkPost(JStr(<<"d", "o", "g">>), TagList(<<<<"d", "o", "g">>, <<"D", "o", "g">>>>),
         <<JNull, JNum(8), JNull, JNull>>, NoVals)

\* a post whose like count the provider hides: likes is -1
DPostHidden ==
  MkPost(JNull, TagList(<<<<"c", "a", "t">>, <<"s", "u", "n">>>>),
         <<JNull, JNum(0 - 1), JNull, JNull>>, <<JNull, JNum(1), JNull, JNull>>)

DiscoverPosts == {DPostCat, DPostTagged, DPostDog, DPostHidden}

Corpora == UNION {[1..n -> DiscoverPosts] : n \in 0..MaxCorpus}

\* what res.json() may find in the body of a 2xx response
DiscoverBodies == {Unparseable, NonArray} \cup {ArrayOf(c) : c \in Corpora}

DiscoverLimits ==
  {[limit |-> Absent, count |-> Absent], [limit |-> Given(1), count |-> Given(2)],
   [limit |-> Garbage, count |-> Given(2)], [limit |-> Absent, count |-> Given(2)]}

DiscoverRequests ==
  {[q |-> q, region |-> region, lang |-> lang, limit |-> l.limit, count |-> l.count] :
     q \in {NoText, <<" ", "C", "a", "t">>}, region \in {NoText, Paris},
     lang \in {NoText, <<"E", "N">>}, l \in DiscoverLimits}

(***************************************************************************)
(* Discover: GET of the discover route                                     *)
(***************************************************************************)
NoDiscoverSummary ==
  [totalPosts |-> 0, totalTags |-> 0, averageLikes |-> 0, averageComments |-> 0]

\* no response returned yet
NoDiscoverResp ==
  [status |-> 0, error |-> FALSE, message |-> "", provider |-> "", upstream |-> 0,
   datasetId |-> <<>>, limit |-> 0, summary |-> NoDiscoverSummary, items |-> <<>>]

DiscoverError(status, message, provider, upstream) ==
  [NoDiscoverResp EXCEPT !.status = status, !.error = TRUE, !.message = message,
                         !.provider = provider, !.upstream = upstream]

MsgUpstreamError == "Upstream error"

\* the sample pushed onto samplePosts for a post
SampleOf(post) ==
  [url |-> post.url, caption |-> post.caption,
   likes |-> likeNum(post), comments |-> comNum(post)]

\* lines 143-167 for one tag of one post
TallyTag(buckets, tag, post) ==
  LET hit == {i \in 1..Len(buckets) : buckets[i].tag = tag}
      b == IF hit = {} THEN [tag |-> tag, count |-> 0, totalLikes |-> 0,
                             totalComments |-> 0, samples |-> 0, samplePosts |-> <<>>]
           ELSE buckets[CHOOSE i \in hit : TRUE]
      new == [tag |-> tag,
              count |-> b.count + 1,
              totalLikes |-> b.totalLikes + likeNum(post),
              totalComments |-> b.totalComments + comNum(post),
              samples |-> IF b.samples < 3 THEN b.samples + 1 ELSE b.samples,
              samplePosts |-> IF b.samples < 3 THEN Append(b.samplePosts, SampleOf(post))
                              ELSE b.samplePosts]
  IN IF tag = <<>> THEN buckets
     ELSE IF hit = {} THEN Append(buckets, new)
     ELSE [i \in 1..Len(buckets) |-> IF i \in hit THEN new ELSE buckets[i]]

RECURSIVE TallyTags(_, _, _)
TallyTags(buckets, tags, post) ==
  IF tags = <<>> THEN buckets
  ELSE TallyTags(TallyTag(buckets, Head(tags), post), Tail(tags), post)

\* lines 137-168: one iteration of the loop over `filtered`
TallyPost(buckets, post) == TallyTags(buckets, TagsOf(post, TextOf(post.caption)), post)

\* the buckets as items, sorted by posts alone and cut to `limit`
RankedByPostsOnly(buckets, limit) ==
  LET items == [i \in 1..Len(buckets) |->
                  [tag |-> buckets[i].tag,
                   platform |-> Instagram,
                   posts |-> buckets[i].count,
                   avgLikes |-> IF buckets[i].count # 0
                                THEN RoundDiv(buckets[i].totalLikes, buckets[i].count) ELSE 0,
                   avgComments |-> IF buckets[i].count # 0
                                   THEN RoundDiv(buckets[i].totalComments, buckets[i].count)
                                   ELSE 0,
                   samples |-> buckets[i].samplePosts]]
      sorted == StableSortDesc(items, [i \in 1..Len(items) |-> <<items[i].posts>>])
  IN SliceTo(sorted, limit)

\* lines 172-182: buckets to ranked items, sorted and cut to `limit`
Ranked(buckets, limit) ==
  LET items == [i \in 1..Len(buckets) |->
                  [tag |-> buckets[i].tag,
                   platform |-> Instagram,
                   posts |-> buckets[i].count,
                   avgLikes |-> IF buckets[i].count # 0
                                THEN RoundDiv(buckets[i].totalLikes, buckets[i].count) ELSE 0,
                   avgComments |-> IF buckets[i].count # 0
                                   THEN RoundDiv(buckets[i].totalComments, buckets[i].count)
                                   ELSE 0,
                   samples |-> buckets[i].samplePosts]]
      sorted == StableSortDesc(items, [i \in 1..Len(items) |->
                                         <<items[i].posts, items[i].avgLikes>>])
  IN SliceTo(sorted, limit)

\* lines 185-190
DiscoverSummary(filtered, buckets, ranked) ==
  [totalPosts |-> Len(filtered),
   totalTags |-> Len(buckets),
   averageLikes |-> IF Len(ranked) # 0
                    THEN RoundDiv(SumSeq([i \in 1..Len(ranked) |-> ranked[i].avgLikes]),
                                  Len(ranked))
                    ELSE 0,
   averageComments |-> IF Len(ranked) # 0
                       THEN RoundDiv(SumSeq([i \in 1..Len(ranked) |-> ranked[i].avgComments]),
                                     Len(ranked))
                       ELSE 0]

\* lines 54-82: parameters, configuration check, the one fetch
DiscoverBegin ==
  /\ handler = "discover"
  /\ UNCHANGED <<searchVars, genVars, unitVars, pageVars>>
  /\ dPc = "start"
  /\ IF getEnv(env.APIFY_DATASET_ID) = <<>> \/ getEnv(env.APIFY_TOKEN) = <<>>
     THEN /\ dResp' = DiscoverError(500, MsgNotConfigured, "none", 0)
          /\ dPc' = "done"
          /\ UNCHANGED dLog
     ELSE /\ dLog' = Append(dLog, [datasetId |-> getEnv(env.APIFY_DATASET_ID),
                                   token |-> getEnv(env.APIFY_TOKEN),
                                   limit |-> ProviderPage])
          /\ dPc' = "await"
          /\ UNCHANGED dResp
  /\ UNCHANGED <<handler, env, dReq, dFiltered, dIdx, dBuckets, dThrown>>

\* await fetch(...) rejects: nothing catches it (line 82)
DiscoverFetchThrows ==
  /\ handler = "discover"
  /\ UNCHANGED <<searchVars, genVars, unitVars, pageVars>>
  /\ dPc = "await"
  /\ dThrown' = "fetch failed"
  /\ dPc' = "threw"
  /\ UNCHANGED <<handler, env, dReq, dLog, dFiltered, dIdx, dBuckets, dResp>>

\* lines 83-115: the provider answers with `status` and, for a 2xx, `body`
DiscoverResponds ==
  /\ handler = "discover"
  /\ UNCHANGED <<searchVars, genVars, unitVars, pageVars>>
  /\ dPc = "await"
  /\ \E status \in Statuses :
       \E body \in (IF ResOk(status) THEN DiscoverBodies ELSE {NonArray}) :
         IF ~ResOk(status)
         THEN /\ dResp' = DiscoverError(502, MsgUpstreamError, "apify", status)
              /\ dPc' = "done"
              /\ UNCHANGED <<dFiltered, dThrown>>
         ELSE IF body.k = "unparseable"
         THEN /\ dThrown' = "res.json() failed"
              /\ dPc' = "threw"
              /\ UNCHANGED <<dFiltered, dResp>>
         ELSE IF ~body.isArray
         THEN /\ dThrown' = "raw.filter is not a function"
              /\ dPc' = "threw"
              /\ UNCHANGED <<dFiltered, dResp>>
         ELSE /\ dFiltered' = DiscoverFilter(body.items, dReq)
              /\ dPc' = "tally"
              /\ UNCHANGED <<dResp, dThrown>>
  /\ UNCHANGED <<handler, env, dReq, dLog, dIdx, dBuckets>>

\* one iteration of for (const it of filtered)
DiscoverTally ==
  /\ handler = "discover"
  /\ UNCHANGED <<searchVars, genVars, unitVars, pageVars>>
  /\ dPc = "tally"
  /\ dIdx < Len(dFiltered)
  /\ dBuckets' = TallyPost(dBuckets, dFiltered[dIdx + 1])
  /\ dIdx' = dIdx + 1
  /\ UNCHANGED <<handler, env, dReq, dPc, dLog, dFiltered, dResp, dThrown>>

\* lines 171-198 after the loop: rank, summarize, return
DiscoverFinish ==
  /\ handler = "discover"
  /\ UNCHANGED <<searchVars, genVars, unitVars, pageVars>>
  /\ dPc = "tally"
  /\ dIdx = Len(dFiltered)
  /\ LET ranked == Ranked(dBuckets, DiscoverLimit(dReq))
     IN dResp' = [NoDiscoverResp EXCEPT
                    !.status = 200, !.provider = "apify",
                    !.datasetId = getEnv(env.APIFY_DATASET_ID),
                    !.limit = DiscoverLimit(dReq),
                    !.summary = DiscoverSummary(dFiltered, dBuckets, ranked),
                    !.items = ranked]
  /\ dPc' = "done"
  /\ UNCHANGED <<handler, env, dReq, dLog, dFiltered, dIdx, dBuckets, dThrown>>

DiscoverNext ==
  \/ DiscoverBegin
  \/ DiscoverFetchThrows
  \/ DiscoverResponds
  \/ DiscoverTally
  \/ DiscoverFinish

(***************************************************************************)
(* Generation: the pure functions of the generation route                  *)
(***************************************************************************)
TikTok == <<"t", "i", "k", "t", "o", "k">>

YouTube == <<"y", "o", "u", "t", "u", "b", "e">>

Twitter == <<"t", "w", "i", "t", "t", "e", "r">>

LinkedIn == <<"l", "i", "n", "k", "e", "d", "i", "n">>

Facebook == <<"f", "a", "c", "e", "b", "o", "o", "k">>

Platforms == <<Instagram, TikTok, YouTube, Twitter, LinkedIn, Facebook>>

\* PLATFORM_LIMITS
PLATFORM_LIMITS(platform) ==
  CASE platform = Instagram -> 25
    [] platform = TikTok -> 20
    [] platform = YouTube -> 12
    [] platform = Twitter -> 6
    [] platform = LinkedIn -> 10
    [] platform = Facebook -> 15

\* toSlugWords(input)
toSlugWords(input) ==
  With(ToLower(input), LAMBDA lowered :
    SplitOn([i \in 1..Len(lowered) |->
               IF IsLetterOrDigit(lowered[i]) \/ IsSpace(lowered[i]) \/ lowered[i] = "-"
               THEN lowered[i] ELSE " "],
            Spaces \cup {"-"}))

\* the variants buildKeywordSet derives from one word
Variants(w) ==
  <<w>>
  \o (IF EndsWith(w, <<"i", "n", "g">>) THEN <<SubSeq(w, 1, Len(w) - 3)>> ELSE <<>>)
  \o (IF ~EndsWith(w, <<"s">>) THEN <<w \o <<"s">>>> ELSE <<>>)
  \o (IF ~EndsWith(w, <<"e", "r">>) THEN <<w \o <<"e", "r">>>> ELSE <<>>)

MaxKeywords == 25

\* a buildKeywordSet that forgets to cut its result
buildKeywordSetUncut(topic, keywords) ==
  With(dedupe(toSlugWords(topic)
              \o FlatCat([i \in 1..Len(keywords) |-> toSlugWords(keywords[i])])),
       LAMBDA all : dedupe(all \o FlatCat([i \in 1..Len(all) |-> Variants(all[i])])))

\* buildKeywordSet(topic, keywords), keywords being an array of strings
buildKeywordSet(topic, keywords) ==
  With(dedupe(toSlugWords(topic)
              \o FlatCat([i \in 1..Len(keywords) |-> toSlugWords(keywords[i])])),
       LAMBDA all :
         Take(dedupe(all \o FlatCat([i \in 1..Len(all) |-> Variants(all[i])])),
              MaxKeywords))

CommonTerms ==
  <<<<"t", "i", "p", "s">>,
    <<"t", "r", "i", "c", "k", "s">>,
    <<"g", "u", "i", "d", "e">>,
    <<"h", "o", "w", "t", "o">>,
    <<"l", "i", "f", "e", "h", "a", "c", "k", "s">>,
    <<"v", "i", "r", "a", "l">>,
    <<"t", "r", "e", "n", "d", "i", "n", "g">>,
    <<"m", "u", "s", "t", "s", "e", "e">>,
    <<"d", "a", "i", "l", "y">>,
    <<"s", "h", "o", "r", "t", "s">>>>

BrandTerms ==
  <<<<"b", "r", "a", "n", "d">>,
    <<"b", "u", "s", "i", "n", "e", "s", "s">>,
    <<"c", "r", "e", "a", "t", "o", "r">>,
    <<"g", "r", "o", "w", "t", "h">>,
    <<"m", "a", "r", "k", "e", "t", "i", "n", "g">>>>

\* platformBoilerplate(platform, words); words is not used by the code
platformBoilerplate(platform) ==
  CommonTerms
  \o (CASE platform = Instagram -> <<<<"r", "e", "e", "l", "s">>,
           <<"i", "n", "s", "t", "a", "g", "o", "o", "d">>,
           <<"e", "x", "p", "l", "o", "r", "e">>>>
        [] platform = TikTok -> <<<<"f", "o", "r", "y", "o", "u">>,
           <<"f", "y", "p">>,
           <<"l", "e", "a", "r", "n", "o", "n", "t", "i", "k", "t", "o", "k">>>>
        [] platform = YouTube -> <<<<"y", "o", "u", "t", "u", "b", "e", "s", "h", "o", "r", "t", "s">>,
           <<"c", "r", "e", "a", "t", "o", "r">>,
           <<"h", "o", "w", "t", "o">>>>
        [] platform = Twitter -> <<<<"b", "u", "i", "l", "d", "i", "n", "p", "u", "b", "l", "i", "c">>,
           <<"t", "h", "r", "e", "a", "d">>,
           <<"x">>>>
        [] platform = LinkedIn -> <<<<"c", "a", "r", "e", "e", "r", "s">>,
           <<"l", "e", "a", "d", "e", "r", "s", "h", "i", "p">>,
           <<"i", "n", "s", "i", "g", "h", "t", "s">>,
           <<"b", "2", "b">>>>
        [] platform = Facebook -> <<<<"c", "o", "m", "m", "u", "n", "i", "t", "y">>,
           <<"s", "h", "a", "r", "e">>,
           <<"f", "o", "l", "l", "o", "w">>>>)
  \o BrandTerms

\* a toHashtag that keeps the bare "#"
toHashtagBare(word) ==
  <<"#">> \o SelectIdx(word, [i \in 1..Len(word) |-> IsLetterOrDigit(word[i])])

\* toHashtag(word): "" when no letter or digit is left
toHashtag(word) ==
  LET clean == SelectIdx(word, [i \in 1..Len(word) |-> IsLetterOrDigit(word[i])])
  IN IF clean = <<>> THEN <<>> ELSE <<"#">> \o clean

PopularTags ==
  {<<"#", "r", "e", "e", "l", "s">>,
   <<"#", "f", "o", "r", "y", "o", "u">>,
   <<"#", "f", "y", "p">>,
   <<"#", "v", "i", "r", "a", "l">>,
   <<"#", "t", "r", "e", "n", "d", "i", "n", "g">>,
   <<"#", "h", "o", "w", "t", "o">>,
   <<"#", "y", "o", "u", "t", "u", "b", "e", "s", "h", "o", "r", "t", "s">>,
   <<"#", "i", "n", "s", "t", "a", "g", "o", "o", "d">>,
   <<"#", "m", "a", "r", "k", "e", "t", "i", "n", "g">>,
   <<"#", "g", "r", "o", "w", "t", "h">>}

\* scoreHashtag(h, platform)
scoreHashtag(h, platform) ==
  (IF Len(h) <= 8 THEN 2 ELSE 0)
  + (IF Len(h) <= 12 THEN 1 ELSE 0)
  + (IF h \in PopularTags THEN 2 ELSE 0)
  + (IF platform = Twitter /\ Len(h) <= 12 THEN 1 ELSE 0)
  + (IF /\ platform = LinkedIn
        /\ \/ Includes(ToLower(h), <<"#", "b", "2", "b">>)
           \/ Includes(ToLower(h), <<"#", "l", "e", "a", "d", "e", "r", "s", "h", "i", "p">>)
           \/ Includes(ToLower(h), <<"#", "i", "n", "s", "i", "g", "h", "t", "s">>)
     THEN 1 ELSE 0)

\* a prioritisation that leaves the scored order as it is
PrioritizeByScoreOnly(topicRoot, scored) == scored

\* lines 174-179: the topic-root tags, then the scored tags that are not among them
Prioritize(topicRoot, scored) ==
  SelectIdx(topicRoot, [i \in 1..Len(topicRoot) |-> topicRoot[i] # <<>>])
  \o SelectIdx(scored, [i \in 1..Len(scored) |-> ~Contains(topicRoot, scored[i])])

\* words.flatMap(w => [`${w}tips`, `${w}guide`, `${w}hacks`])
Derived(words) ==
  FlatCat([i \in 1..Len(words) |->
             <<words[i] \o <<"t", "i", "p", "s">>,
               words[i] \o <<"g", "u", "i", "d", "e">>,
               words[i] \o <<"h", "a", "c", "k", "s">>>>])

\* raw.map(toHashtag).filter(Boolean).map(h => h.toLowerCase()), deduplicated
Tags(raw) ==
  With([i \in 1..Len(raw) |-> toHashtag(raw[i])], LAMBDA mapped :
    dedupe(With(SelectIdx(mapped, [i \in 1..Len(mapped) |-> mapped[i] # <<>>]),
                LAMBDA kept : [i \in 1..Len(kept) |-> ToLower(kept[i])])))

\* toSlugWords(topic).slice(0, 2).map(toHashtag)
TopicRoot(topic) ==
  With(Take(toSlugWords(topic), 2), LAMBDA roots :
    [i \in 1..Len(roots) |-> toHashtag(roots[i])])

\* lines 156-179 of generateHashtags: `prioritized`
Prioritized(topic, platform, keywords) ==
  With(buildKeywordSet(topic, keywords), LAMBDA words :
    With(Tags(dedupe(words \o platformBoilerplate(platform) \o Derived(words))),
         LAMBDA tags :
           With(StableSortDesc(tags, [i \in 1..Len(tags) |->
                                        <<scoreHashtag(tags[i], platform)>>]),
                LAMBDA scored : With(TopicRoot(topic), LAMBDA topicRoot :
                                  Prioritize(topicRoot, scored)))))

\* a generateHashtags that forgets to cut its result
generateHashtagsUncut(topic, platform, maxHashtags, keywords) ==
  Prioritized(topic, platform, keywords)

\* generateHashtags(topic, platform, maxHashtags, keywords); maxHashtags is a
\* JavaScript number
generateHashtags(topic, platform, maxHashtags, keywords) ==
  JsSliceTo(Prioritized(topic, platform, keywords), maxHashtags)

(***************************************************************************)
(* Generation: caption, variations and POST                                *)
(***************************************************************************)
Friendly == <<"f", "r", "i", "e", "n", "d", "l", "y">>

Bold == <<"b", "o", "l", "d">>

Informative == <<"i", "n", "f", "o", "r", "m", "a", "t", "i", "v", "e">>

Playful == <<"p", "l", "a", "y", "f", "u", "l">>

Luxury == <<"l", "u", "x", "u", "r", "y">>

Urgent == <<"u", "r", "g", "e", "n", "t">>

Tones == <<Friendly, Bold, Informative, Playful, Luxury, Urgent>>

\* PLATFORM_STYLES
PLATFORM_STYLES(platform) ==
  [preferEmojis |-> platform \in {Instagram, TikTok, Twitter, Facebook},
   addLineBreaks |-> platform \in {Instagram, TikTok, YouTube, Facebook}]

\* TONE_EMOJIS, each emoji by its name
TONE_EMOJIS(tone) ==
  CASE tone = Friendly -> <<"smile", "sparkles", "handshake", "thumbsup", "star">>
    [] tone = Bold -> <<"fire", "rocket", "zap", "boom", "trophy">>
    [] tone = Informative -> <<"brain", "pin", "book", "magnifier", "check">>
    [] tone = Playful -> <<"grin", "tada", "party", "starstruck", "catgrin">>
    [] tone = Luxury -> <<"gem", "sparkles", "building", "glasses", "blackheart">>
    [] tone = Urgent -> <<"alarm", "warning", "megaphone", "bell", "exclamation">>

CTA_FRAGMENTS ==
  <<"Save this for later", "Tag a friend who needs this", "Follow for more like this",
    "What do you think?", "Drop your thoughts below", "Share this with your team",
    "Need a part 2?">>

HOOKS ==
  <<"Quick tip:", "Pro move:", "Real talk:", "Heads up:", "Don't miss:",
    "If you're into this, read on:">>

\* valueLineByTone
valueLineByTone(tone) ==
  CASE tone = Friendly -> "Here's a quick breakdown to help you out."
    [] tone = Bold -> "Use this now to level up fast."
    [] tone = Informative -> "Key points summarized for easy action."
    [] tone = Playful -> "This one's fun *and* useful."
    [] tone = Luxury -> "Elevate your taste with these essentials."
    [] tone = Urgent -> "Act now-this won't last long."

\* titleCase(words)
titleCase(words) ==
  JoinWith([i \in 1..Len(words) |-> <<ToUpperChar(words[i][1])>> \o Tail(words[i])], <<" ">>)

\* the k-th number Math.random() returns to the handler, times 100; the
\* generator is read cyclically
DrawAt(rng, k) == rng[((k - 1) % Len(rng)) + 1]

\* Math.floor(Math.random() * n) on the k-th draw
RandIndex(rng, k, n) == (DrawAt(rng, k) * n) \div 100

RECURSIVE pick(_, _, _, _)
\* pick(arr, n), drawing from the k-th draw on
pick(arr, n, rng, k) ==
  IF arr = <<>> \/ n <= 0 THEN <<>>
  ELSE LET idx == RandIndex(rng, k, Len(arr)) + 1
       IN <<arr[idx]>>
          \o pick(SubSeq(arr, 1, idx - 1) \o SubSeq(arr, idx + 1, Len(arr)), n - 1, rng, k + 1)

\* the draws one call of buildCaption consumes
CaptionDraws(includeEmojis) == IF includeEmojis THEN 4 ELSE 2

\* buildCaption(topic, tone, platform, includeEmojis, hashtags), drawing from
\* the k-th draw on.  The caption is the sequence of its pieces: the fixed
\* phrases and emojis are one piece each, the rest is made of characters.
buildCaption(topic, tone, platform, includeEmojis, hashtags, rng, k) ==
  LET title == titleCase(toSlugWords(topic))
      hook == HOOKS[RandIndex(rng, k, Len(HOOKS)) + 1]
      cta == CTA_FRAGMENTS[RandIndex(rng, k + 1, Len(CTA_FRAGMENTS)) + 1]
      picked == pick(TONE_EMOJIS(tone), 2, rng, k + 2)
      emojis == IF includeEmojis
                THEN JoinWith([i \in 1..Len(picked) |-> <<picked[i]>>], <<" ">>) \o <<" ">>
                ELSE <<>>
      joiner == IF PLATFORM_STYLES(platform).addLineBreaks THEN <<"\n", "\n">> ELSE <<" ">>
      hashBlock == JoinWith(hashtags, <<" ">>)
      lines == <<emojis \o <<hook, " ">> \o title, <<valueLineByTone(tone)>>, <<cta>>>>
  IN JoinWith(lines, joiner) \o (IF hashBlock # <<>> THEN joiner \o hashBlock ELSE <<>>)

\* sanitizePlatform(p), p being null / undefined or a string
sanitizePlatform(p) ==
  LET v == ToLower(IF p.t = "str" THEN p.s ELSE Instagram)
  IN IF Contains(Platforms, v) THEN v ELSE Instagram

\* sanitizeTone(t)
sanitizeTone(t) ==
  LET v == ToLower(IF t.t = "str" THEN t.s ELSE Friendly)
  IN IF Contains(Tones, v) THEN v ELSE Friendly

RECURSIVE ShuffleFrom(_, _, _, _, _)
\* hashtags.slice().sort(() => Math.random() - 0.5): the comparator is not
\* consistent, so the order is whatever the engine's sort makes of the draws;
\* element i goes to the place among the first i - 1 that its draw selects, which
\* reaches every permutation as the draws vary
ShuffleFrom(items, i, acc, rng, k) ==
  IF i > Len(items) THEN acc
  ELSE With(RandIndex(rng, k, Len(acc) + 1), LAMBDA at :
         With(SubSeq(acc, 1, at) \o <<items[i]>> \o SubSeq(acc, at + 1, Len(acc)),
              LAMBDA placed : ShuffleFrom(items, i + 1, placed, rng, k + 1)))

\* a shuffle that keeps one of each of the items that occur twice
ShuffleDistinct(items, rng, k) == ShuffleFrom(dedupe(items), 1, <<>>, rng, k)

Shuffle(items, rng, k) == ShuffleFrom(items, 1, <<>>, rng, k)

\* ToNumber of a JSON value that is not null
ToNumber(j) ==
  CASE j.t = "num" -> Num(j.v)
    [] j.t = "bool" -> Num(j.v)
    [] j.t = "str" -> NumberOfText(Trim(j.s))
    [] OTHER -> NaN

\* a POST that lets the caller's maxHashtags through uncapped
PostLimitUncapped(body, platform) ==
  MathMax(Num(1), IF body.maxHashtags.t = "null" THEN Num(PLATFORM_LIMITS(platform))
                  ELSE ToNumber(body.maxHashtags))

\* lines 248-254: Math.max(1, Math.min(body.maxHashtags ?? L, L))
PostLimit(body, platform) ==
  LET L == Num(PLATFORM_LIMITS(platform))
  IN MathMax(Num(1), MathMin(IF body.maxHashtags.t = "null" THEN L
                              ELSE ToNumber(body.maxHashtags), L))

\* body.includeEmojis ?? PLATFORM_STYLES[platform].preferEmojis
PostIncludeEmojis(body, platform) ==
  IF body.includeEmojis.t = "null" THEN PLATFORM_STYLES(platform).preferEmojis
  ELSE body.includeEmojis.v = 1

NoGenResp ==
  [status |-> 0, error |-> "", topic |-> <<>>, platform |-> <<>>, tone |-> <<>>,
   caption |-> <<>>, hashtags |-> <<>>, variations |-> <<>>]

MsgInvalidPayload == "Invalid request payload"

\* a TypeError is thrown inside the try block: .toLowerCase() of a value that
\* is no string (platform, tone, topic), .flatMap of keywords that is no array
PostThrows(body) ==
  \/ body.platform.t \notin {"null", "str"}
  \/ body.tone.t \notin {"null", "str"}
  \/ body.topic.t # "str"
  \/ body.keywords.t \notin {"null", "arr"}

\* lines 263-267: one variation, its shuffle drawing from the k-th draw on
Variation(topic, tone, platform, includeEmojis, hashtags, rng, k) ==
  With(Shuffle(hashtags, rng, k), LAMBDA shuffled :
    [caption |-> buildCaption(topic, tone, platform, includeEmojis, shuffled, rng,
                              k + Len(hashtags)),
     hashtags |-> shuffled])

\* lines 246-278: the result of a body that makes nothing throw
PostResult(body, rng) ==
  LET platform == sanitizePlatform(body.platform)
      tone == sanitizeTone(body.tone)
      includeEmojis == PostIncludeEmojis(body, platform)
      n == CaptionDraws(includeEmojis)
  IN With(generateHashtags(body.topic.s, platform, PostLimit(body, platform),
                           body.keywords.a),
          LAMBDA hashtags :
            [NoGenResp EXCEPT
               !.status = 200, !.topic = body.topic.s, !.platform = platform, !.tone = tone,
               !.caption = buildCaption(body.topic.s, tone, platform, includeEmojis,
                                        hashtags, rng, 1),
               !.hashtags = hashtags,
               !.variations =
                 <<Variation(body.topic.s, tone, platform, includeEmojis, hashtags, rng,
                             n + 1),
                   Variation(body.topic.s, tone, platform, includeEmojis, hashtags, rng,
                             2 * n + Len(hashtags) + 1)>>])

\* await req.json() rejects: the body is no JSON; the catch answers 400
PostBodyRejected ==
  /\ handler = "generate"
  /\ UNCHANGED <<searchVars, discoverVars, unitVars, pageVars>>
  /\ gPc = "start"
  /\ ~gReq.json
  /\ gResp' = [NoGenResp EXCEPT !.status = 400, !.error = MsgInvalidPayload]
  /\ gPc' = "done"
  /\ UNCHANGED <<handler, env, gReq, gRng, gLimit>>

\* lines 244-285 for a body that is JSON
Post ==
  /\ handler = "generate"
  /\ UNCHANGED <<searchVars, discoverVars, unitVars, pageVars>>
  /\ gPc = "start"
  /\ gReq.json
  /\ IF PostThrows(gReq)
     THEN /\ gResp' = [NoGenResp EXCEPT !.status = 400, !.error = MsgInvalidPayload]
          /\ UNCHANGED gLimit
     ELSE /\ gResp' = PostResult(gReq, gRng)
          /\ gLimit' = PostLimit(gReq, sanitizePlatform(gReq.platform))
  /\ gPc' = "done"
  /\ UNCHANGED <<handler, env, gReq, gRng>>

GenNext == PostBodyRejected \/ Post

(***************************************************************************)
(* Requests of the generation route                                        *)
(***************************************************************************)
TopicTokens == {<<"c", "a", "t">>, <<"B", "a", "k", "i", "n", "g">>, <<"i", "n", "g">>, <<"P", "r", "o", "-", "T", "i", "p", "!", "!">>, <<"#">>}

\* the topics: up to MaxTopicWords tokens, separated by one space
Topics == {JoinWith(t, <<" ">>) : t \in UNION {[1..n -> TopicTokens] : n \in 0..MaxTopicWords}}

GenPlatforms == {JNull, JStr(<<"T", "w", "i", "t", "t", "e", "r">>), JStr(LinkedIn), JStr(<<"m", "y", "s", "p", "a", "c", "e">>)}

GenMaxHashtags == {JNull, JNum(0), JNum(2), JNum(30), JStr(<<"a", "b", "c">>)}

OtherJson == [t |-> "other", a |-> <<>>]

GenKeywords ==
  {NoTagList, OtherJson,
   TagList(<<<<"P", "r", "o", "-", "T", "i", "p", "!", "!">>, <<"c", "a", "t", "s">>,
             <<"C", "a", "f", "<e'>", "2">>>>)}

GenStyles ==
  {[tone |-> JNull, includeEmojis |-> JBool(FALSE)],
   [tone |-> JStr(<<"L", "u", "x", "u", "r", "y">>), includeEmojis |-> JNull],
   [tone |-> JStr(<<"w", "e", "i", "r", "d">>), includeEmojis |-> JBool(TRUE)],
   [tone |-> JNum(1), includeEmojis |-> JNull]}

\* what Math.random() returns, times 100, read cyclically
RngStreams == {<<0>>, <<99, 50, 25>>, <<50, 99>>, <<0, 0, 50, 0, 10, 0, 0>>}

\* a body that is no JSON
NoBody ==
  [json |-> FALSE, topic |-> JNull, platform |-> JNull, tone |-> JNull,
   maxHashtags |-> JNull, includeEmojis |-> JNull, keywords |-> NoTagList]

MkBody(topic, platform, tone, maxHashtags, includeEmojis, keywords) ==
  [json |-> TRUE, topic |-> topic, platform |-> platform, tone |-> tone,
   maxHashtags |-> maxHashtags, includeEmojis |-> includeEmojis, keywords |-> keywords]

\* bodies that vary what the hashtags are made from
HashtagCases ==
  {[body |-> MkBody(topic, platform, JNull, maxHashtags, JNull, keywords), rng |-> <<0>>] :
     topic \in {JStr(t) : t \in Topics} \cup {JNull},
     platform \in GenPlatforms, maxHashtags \in GenMaxHashtags, keywords \in GenKeywords}

\* bodies that vary what the captions and the variations are made from
StyleTopics ==
  {<<"c", "a", "t", " ", "B", "a", "k", "i", "n", "g">>, <<"c", "a", "t", " ", "c", "a", "t">>}

StyleCases ==
  {[body |-> MkBody(JStr(topic), platform, st.tone, JNum(3), st.includeEmojis, NoTagList),
    rng |-> rng] :
     topic \in StyleTopics, platform \in GenPlatforms, st \in GenStyles, rng \in RngStreams}

\* what maxHashtags may hold when the limit is what matters: absent, zero,
\* negative, within every limit, above every limit, a numeric string
LimitMaxHashtags ==
  {JNull, JNum(0), JNum(0 - 1), JNum(7), JNum(30), JStr(<<"1", "2">>)}

s_photosynthesis ==
  <<"p", "h", "o", "t", "o", "s", "y", "n", "t", "h", "e", "s", "i", "s">>

\* two topics of two words; the first word of the second one scores 0
LimitTopics ==
  {<<"c", "a", "t", " ", "B", "a", "k", "i", "n", "g">>,
   s_photosynthesis \o <<" ", "c", "a", "t">>}

\* bodies that vary what the limit is made from, on each of the six platforms
LimitCases ==
  {[body |-> MkBody(JStr(topic), JStr(platform), JNull, maxHashtags, JNull, NoTagList),
    rng |-> <<0>>] :
     topic \in LimitTopics, platform \in Range(Platforms), maxHashtags \in LimitMaxHashtags}

GenCases ==
  HashtagCases \cup StyleCases \cup LimitCases \cup {[body |-> NoBody, rng |-> <<0>>]}

(***************************************************************************)
(* The helpers called on their own                                         *)
(***************************************************************************)
\* a call: the name of the helper, its text argument, and its platform and
\* keywords arguments where it has them
MkCall(fn, text, platform, keywords) ==
  [fn |-> fn, text |-> text, platform |-> platform, keywords |-> keywords]

NoCall == MkCall("", <<>>, <<>>, <<>>)

\* nothing returned yet: a text, a number or a list of texts
NoRet == [text |-> <<>>, num |-> 0, list |-> <<>>]

\* the words toHashtag is called with
HashtagWords ==
  {<<>>,
   <<"c", "a", "t">>,
   <<"P", "r", "o", "-", "T", "i", "p", "!", "!">>,
   <<"#", "#", "#">>,
   <<"C", "a", "f", "<e'>", "2">>,
   <<"a", "_", "b", " ", "1">>,
   <<"B", "2", "B">>}

HashtagCalls == {MkCall("toHashtag", w, <<>>, <<>>) : w \in HashtagWords}

\* the characters of the texts norm is called with: an upper-case letter, a
\* lower-case one, an accented one, a compatibility character, whitespace,
\* punctuation and "#"
NormAlphabet == {"A", "b", "<e'>", "<TM>", " ", "\t", "!", "#"}

NormTexts == UNION {[1..n -> NormAlphabet] : n \in 0..MaxNormLen}

NormCalls == {MkCall("norm", x, <<>>, <<>>) : x \in NormTexts}

s_leadership == <<"l", "e", "a", "d", "e", "r", "s", "h", "i", "p">>

\* the tags scoreHashtag is called with: lengths on both sides of 8 and of
\* 12, tags of the popularity list, and tags with b2b, leadership or insights
\* at their start, further inside, and in capitals
ScoreTags ==
  {<<"#", "f", "y", "p">>,
   <<"#", "g", "r", "o", "w", "t", "h">>,
   <<"#", "a", "b", "c", "d", "e", "f", "g">>,
   <<"#", "a", "b", "c", "d", "e", "f", "g", "h">>,
   <<"#", "m", "a", "r", "k", "e", "t", "i", "n", "g">>,
   <<"#", "a", "b", "c", "d", "e", "f", "g", "h", "i", "j", "k">>,
   <<"#", "a", "b", "c", "d", "e", "f", "g", "h", "i", "j", "k", "l">>,
   <<"#", "y", "o", "u", "t", "u", "b", "e", "s", "h", "o", "r", "t", "s">>,
   <<"#", "b", "2", "b">>,
   <<"#", "B", "2", "B">>,
   <<"#", "m", "y", "b", "2", "b">>,
   <<"#">> \o s_leadership,
   <<"#">> \o s_leadership \o <<"t", "i", "p", "s">>,
   <<"#", "t", "h", "o", "u", "g", "h", "t">> \o s_leadership,
   <<"#", "i", "n", "s", "i", "g", "h", "t", "s">>,
   <<"#", "I", "n", "s", "i", "g", "h", "t">>}

ScoreCalls == {MkCall("scoreHashtag", h, p, <<>>) : h \in ScoreTags, p \in Range(Platforms)}

\* the topics and the keyword lists buildKeywordSet is called with; the long
\* list makes more candidates than buildKeywordSet keeps
KeywordTopics ==
  {<<>>, <<"i", "n", "g">>, <<"c", "a", "t", " ", "B", "a", "k", "i", "n", "g">>,
   <<"r", "u", "n", "n", "e", "r", "-", "C", "a", "t", "s">>}

KeywordLists ==
  {<<>>,
   <<<<"P", "r", "o", "-", "T", "i", "p", "!", "!">>, <<"c", "a", "t", "s">>,
     <<"C", "a", "f", "<e'>", "2">>>>,
   <<<<"P", "r", "o", "-", "T", "i", "p", "!", "!">>, <<"c", "a", "t", "s", " ", "c", "a", "t">>,
     <<"s", "i", "n", "g", "i", "n", "g">>, <<"b", "a", "k", "e", "r">>,
     <<"t", "o", "y", "s">>, <<"i", "n", "g">>, <<"x">>, <<"b", "a", "k">>>>}

KeywordCalls ==
  {MkCall("buildKeywordSet", t, <<>>, k) : t \in KeywordTopics, k \in KeywordLists}

UnitCalls == HashtagCalls \cup NormCalls \cup ScoreCalls \cup KeywordCalls

\* toHashtag(word)
CallToHashtag ==
  /\ handler = "unit"
  /\ UNCHANGED <<searchVars, discoverVars, genVars, pageVars>>
  /\ uPc = "start"
  /\ uCall.fn = "toHashtag"
  /\ uRet' = [NoRet EXCEPT !.text = toHashtag(uCall.text)]
  /\ uPc' = "done"
  /\ UNCHANGED <<handler, env, uCall>>

\* norm(s)
CallNorm ==
  /\ handler = "unit"
  /\ UNCHANGED <<searchVars, discoverVars, genVars, pageVars>>
  /\ uPc = "start"
  /\ uCall.fn = "norm"
  /\ uRet' = [NoRet EXCEPT !.text = norm(uCall.text)]
  /\ uPc' = "done"
  /\ UNCHANGED <<handler, env, uCall>>

\* scoreHashtag(h, platform)
CallScoreHashtag ==
  /\ handler = "unit"
  /\ UNCHANGED <<searchVars, discoverVars, genVars, pageVars>>
  /\ uPc = "start"
  /\ uCall.fn = "scoreHashtag"
  /\ uRet' = [NoRet EXCEPT !.num = scoreHashtag(uCall.text, uCall.platform)]
  /\ uPc' = "done"
  /\ UNCHANGED <<handler, env, uCall>>

\* buildKeywordSet(topic, keywords)
CallBuildKeywordSet ==
  /\ handler = "unit"
  /\ UNCHANGED <<searchVars, discoverVars, genVars, pageVars>>
  /\ uPc = "start"
  /\ uCall.fn = "buildKeywordSet"
  /\ uRet' = [NoRet EXCEPT !.list = buildKeywordSet(uCall.text, uCall.keywords)]
  /\ uPc' = "done"
  /\ UNCHANGED <<handler, env, uCall>>

UnitNext == CallToHashtag \/ CallNorm \/ CallScoreHashtag \/ CallBuildKeywordSet

(***************************************************************************)
(* Specifications: one request, to one of the three handlers, or one call  *)
(* of a helper                                                             *)
(***************************************************************************)
(* The Hashtag Explorer page: the effect of HashtagsPage                   *)
(***************************************************************************)
\* largest number of times the effect runs while the page is mounted
MaxEffects == 3

\* the values the dependencies [q, platform, limit] are rendered with
PageParams == {"travel", "cats"}

NoData == [from |-> 0, params |-> ""]

NoErr == [from |-> 0, msg |-> ""]

NoWrite == [by |-> 0, fields |-> {}]

\* what res.json() resolves with: a body with ok, a body without ok and with
\* or without a message, the JSON value null
PageJsons == {"ok", "failed with message", "failed", "null"}

\* what a promise of run() rejects with: an error with or without a message
PageErrors == {"fetch failed", ""}

\* the effect whose cleanup has not run, 0 if there is none
ActiveRun == IF pRuns # <<>> /\ pRuns[Len(pRuns)].alive THEN Len(pRuns) ELSE 0

\* the effect of the last render has not been run yet
EffectPending ==
  /\ pMounted
  /\ IF pRuns = <<>> THEN TRUE ELSE pRuns[Len(pRuns)].params # pParams

\* the cleanup of every effect run so far has run: alive = false
CleanedUp == [i \in 1..Len(pRuns) |-> [pRuns[i] EXCEPT !.alive = FALSE]]

\* run i has come to its end
Finished(i) == [pRuns EXCEPT ![i].pc = "done"]

\* run i has returned at line 55 or 62: its effect is no longer alive
Dropped(i) == [pRuns EXCEPT ![i].pc = "dropped"]

\* lines 61-66 in run i: catch (e) and finally
PageCatch(i, message) ==
  /\ IF pRuns[i].alive
     THEN /\ pRuns' = Finished(i)
          /\ pErr' = [from |-> i, msg |-> IF message # "" THEN message ELSE "Network error"]
          /\ pLoading' = FALSE
          /\ pWrote' = [by |-> i, fields |-> {"err", "loading"}]
     ELSE /\ pRuns' = Dropped(i)
          /\ UNCHANGED <<pErr, pLoading>>
          /\ pWrote' = NoWrite
  /\ UNCHANGED <<pData, pParams, pMounted>>

\* the page is rendered again, with other query parameters (line 72): the
\* effect of this render is yet to run
PageRender ==
  /\ handler = "page"
  /\ UNCHANGED <<searchVars, discoverVars, genVars, unitVars>>
  /\ pMounted
  /\ ~EffectPending
  /\ Len(pRuns) < MaxEffects
  /\ \E params \in PageParams \ {pParams} : pParams' = params
  /\ pWrote' = NoWrite
  /\ UNCHANGED <<handler, env, pRuns, pData, pErr, pLoading, pMounted>>

\* lines 69-71 of the effect before, then lines 44-53 and 68: the cleanup,
\* then alive = true and run() up to its first await
PageEffect ==
  /\ handler = "page"
  /\ UNCHANGED <<searchVars, discoverVars, genVars, unitVars>>
  /\ EffectPending
  /\ pRuns' = Append(CleanedUp, [alive |-> TRUE, pc |-> "fetch", params |-> pParams])
  /\ pLoading' = TRUE
  /\ pErr' = NoErr
  /\ pWrote' = [by |-> Len(pRuns) + 1, fields |-> {"loading", "err"}]
  /\ UNCHANGED <<handler, env, pData, pParams, pMounted>>

\* the component unmounts: lines 69-71 of the last effect
PageUnmount ==
  /\ handler = "page"
  /\ UNCHANGED <<searchVars, discoverVars, genVars, unitVars>>
  /\ pMounted
  /\ pMounted' = FALSE
  /\ pRuns' = CleanedUp
  /\ pWrote' = NoWrite
  /\ UNCHANGED <<handler, env, pData, pErr, pLoading, pParams>>

\* line 49 in run i: fetch resolves, res.json() is awaited (line 54)
PageFetchResolves ==
  /\ handler = "page"
  /\ UNCHANGED <<searchVars, discoverVars, genVars, unitVars>>
  /\ \E i \in 1..Len(pRuns) :
       /\ pRuns[i].pc = "fetch"
       /\ pRuns' = [pRuns EXCEPT ![i].pc = "json"]
  /\ pWrote' = NoWrite
  /\ UNCHANGED <<handler, env, pData, pErr, pLoading, pParams, pMounted>>

\* line 49 or 54 in run i: fetch or res.json() rejects
PageRejects ==
  /\ handler = "page"
  /\ UNCHANGED <<searchVars, discoverVars, genVars, unitVars>>
  /\ \E i \in 1..Len(pRuns) :
       /\ pRuns[i].pc \in {"fetch", "json"}
       /\ \E message \in PageErrors : PageCatch(i, message)
  /\ UNCHANGED <<handler, env>>

\* a run that writes the state whether or not its effect is still alive
PageJsonResolvesUnguarded ==
  /\ handler = "page"
  /\ UNCHANGED <<searchVars, discoverVars, genVars, unitVars>>
  /\ \E i \in 1..Len(pRuns) :
       /\ pRuns[i].pc = "json"
       /\ \E json \in PageJsons \ {"null"} :
            /\ pRuns' = Finished(i)
            /\ IF json = "ok"
               THEN /\ pData' = [from |-> i, params |-> pRuns[i].params]
                    /\ UNCHANGED pErr
               ELSE /\ pErr' = [from |-> i, msg |-> "Request failed"]
                    /\ UNCHANGED pData
            /\ pLoading' = FALSE
            /\ pWrote' = [by |-> i, fields |-> {IF json = "ok" THEN "data" ELSE "err",
                                                 "loading"}]
            /\ UNCHANGED <<pParams, pMounted>>
  /\ UNCHANGED <<handler, env>>

\* lines 54-60 and 64-66 in run i: res.json() resolves with `json`
PageJsonResolves ==
  /\ handler = "page"
  /\ UNCHANGED <<searchVars, discoverVars, genVars, unitVars>>
  /\ \E i \in 1..Len(pRuns) :
       /\ pRuns[i].pc = "json"
       /\ \E json \in PageJsons :
            IF ~pRuns[i].alive
            THEN /\ pRuns' = Dropped(i)
                 /\ pWrote' = NoWrite
                 /\ UNCHANGED <<pData, pErr, pLoading, pParams, pMounted>>
            ELSE IF json = "null"
            THEN PageCatch(i, "Cannot read properties of null")
            ELSE /\ pRuns' = Finished(i)
                 /\ IF json = "ok"
                    THEN /\ pData' = [from |-> i, params |-> pRuns[i].params]
                         /\ UNCHANGED pErr
                    ELSE /\ pErr' = [from |-> i,
                                     msg |-> IF json = "failed with message"
                                             THEN "message of the route"
                                             ELSE "Request failed"]
                         /\ UNCHANGED pData
                 /\ pLoading' = FALSE
                 /\ pWrote' = [by |-> i, fields |-> {IF json = "ok" THEN "data" ELSE "err",
                                                      "loading"}]
                 /\ UNCHANGED <<pParams, pMounted>>
  /\ UNCHANGED <<handler, env>>

PageNext ==
  \/ PageRender
  \/ PageEffect
  \/ PageUnmount
  \/ PageFetchResolves
  \/ PageRejects
  \/ PageJsonResolves

(***************************************************************************)
NoSearchRequest ==
  [q |-> NoText, platform |-> NoText, count |-> Absent, sample |-> Absent,
   datasetId |-> NoText]

NoDiscoverRequest ==
  [q |-> NoText, region |-> NoText, lang |-> NoText, limit |-> Absent, count |-> Absent]

\* the locals of the search before its first statement
SearchFresh ==
  /\ sPage = 0
  /\ sAttempt = 0
  /\ sLog = <<>>
  /\ sTimers = {}
  /\ sMatched = <<>>
  /\ sSeen = <<>>
  /\ sResp = NoResp

DiscoverFresh ==
  /\ dLog = <<>>
  /\ dFiltered = <<>>
  /\ dIdx = 0
  /\ dBuckets = <<>>
  /\ dResp = NoDiscoverResp
  /\ dThrown = ""

GenFresh ==
  /\ gLimit = Num(0)
  /\ gResp = NoGenResp

SearchIdle == sReq = NoSearchRequest /\ sPc = "idle" /\ SearchFresh

DiscoverIdle == dReq = NoDiscoverRequest /\ dPc = "idle" /\ DiscoverFresh

GenIdle == gReq = NoBody /\ gRng = <<0>> /\ gPc = "idle" /\ GenFresh

UnitIdle == uCall = NoCall /\ uPc = "idle" /\ uRet = NoRet

PageIdle ==
  /\ pMounted = FALSE
  /\ pParams = ""
  /\ pRuns = <<>>
  /\ pData = NoData
  /\ pErr = NoErr
  /\ pLoading = FALSE
  /\ pWrote = NoWrite

SearchInit ==
  /\ handler = "search"
  /\ env \in Envs
  /\ sReq \in SearchRequests
  /\ sPc = "start"
  /\ SearchFresh
  /\ DiscoverIdle
  /\ GenIdle
  /\ UnitIdle
  /\ PageIdle

DiscoverInit ==
  /\ handler = "discover"
  /\ env \in DiscoverEnvs
  /\ dReq \in DiscoverRequests
  /\ dPc = "start"
  /\ DiscoverFresh
  /\ SearchIdle
  /\ GenIdle
  /\ UnitIdle
  /\ PageIdle

GenInit ==
  /\ handler = "generate"
  /\ env \in {[APIFY_DATASET_ID |-> NoText, APIFY_TOKEN |-> NoText]}
  /\ \E c \in GenCases :
       /\ gReq = c.body
       /\ gRng = c.rng
  /\ gPc = "start"
  /\ GenFresh
  /\ SearchIdle
  /\ DiscoverIdle
  /\ UnitIdle
  /\ PageIdle

UnitInit ==
  /\ handler = "unit"
  /\ env \in {[APIFY_DATASET_ID |-> NoText, APIFY_TOKEN |-> NoText]}
  /\ uCall \in UnitCalls
  /\ uPc = "start"
  /\ uRet = NoRet
  /\ SearchIdle
  /\ DiscoverIdle
  /\ GenIdle
  /\ PageIdle

\* lines 35-41: the first render, the effect not yet run
PageInit ==
  /\ handler = "page"
  /\ env \in {[APIFY_DATASET_ID |-> NoText, APIFY_TOKEN |-> NoText]}
  /\ pMounted = TRUE
  /\ pParams \in PageParams
  /\ pRuns = <<>>
  /\ pData = NoData
  /\ pErr = NoErr
  /\ pLoading = FALSE
  /\ pWrote = NoWrite
  /\ SearchIdle
  /\ DiscoverIdle
  /\ GenIdle
  /\ UnitIdle

vars == <<handler, env, searchVars, discoverVars, genVars, unitVars, pageVars>>

SearchSpec == SearchInit /\ [][SearchNext]_vars

\* every fetch settles (the provider answers, or the abort timer rejects it)
\* and every backoff sleep ends
SearchFairSpec == SearchSpec /\ WF_vars(SearchNext)

DiscoverSpec == DiscoverInit /\ [][DiscoverNext]_vars

GenSpec == GenInit /\ [][GenNext]_vars

UnitSpec == UnitInit /\ [][UnitNext]_vars

PageSpec == PageInit /\ [][PageNext]_vars

Init == SearchInit \/ DiscoverInit \/ GenInit \/ UnitInit \/ PageInit

Next == SearchNext \/ DiscoverNext \/ GenNext \/ UnitNext \/ PageNext

Spec == Init /\ [][Next]_vars

(***************************************************************************)
(* Properties of the paginated search                                      *)
(***************************************************************************)
SearchDone == handler = "search" /\ sPc = "done"

Unavailable502 == sResp.status = 502 /\ sResp.error /\ sResp.message = MsgUnavailable

\* the fetches of one page are attempts 0, 1, 2 at most; an attempt beyond the
\* first follows, on the same page, a response with status >= 500 or 429, after
\* a sleep of 500 ms (second attempt) or 1000 ms (third)
RetryDiscipline ==
  \A i \in 1..Len(sLog) :
    /\ sLog[i].attempt \in 0..2
    /\ sLog[i].attempt > 0 =>
         /\ i > 1
         /\ sLog[i - 1].offset = sLog[i].offset
         /\ sLog[i - 1].attempt = sLog[i].attempt - 1
         /\ sLog[i - 1].outcome = "response"
         /\ (sLog[i - 1].status >= 500 \/ sLog[i - 1].status = 429)
         /\ sLog[i].after = (IF sLog[i].attempt = 1 THEN 500 ELSE 1000)
    /\ sLog[i].attempt = 0 => sLog[i].after = 0

\* a third response with status >= 500 or 429 ends the request with the 502
ThirdFailureEnds ==
  \A i \in 1..Len(sLog) :
    (/\ sLog[i].outcome = "response"
     /\ (sLog[i].status >= 500 \/ sLog[i].status = 429)
     /\ sLog[i].attempt = 2)
    => (i = Len(sLog) /\ SearchDone /\ Unavailable502)

\* response i has a non-2xx status that is neither >= 500 nor 429
OtherFailure(i) ==
  /\ sLog[i].outcome = "response"
  /\ ~(sLog[i].status >= 200 /\ sLog[i].status <= 299)
  /\ ~(sLog[i].status >= 500 \/ sLog[i].status = 429)

\* C1 as stated: at most 3 attempts per page, a further attempt only after a
\* 5xx/429 response and the doubling backoff, a third 5xx/429 ends the request
\* with the 502, and a non-2xx response with any other status ends the request
\* with the 502 after exactly one attempt for that page.
C1_AsStated ==
  /\ RetryDiscipline
  /\ ThirdFailureEnds
  /\ \A i \in 1..Len(sLog) :
       OtherFailure(i) =>
         /\ i = Len(sLog) /\ SearchDone /\ Unavailable502
         /\ Cardinality({j \in 1..Len(sLog) : sLog[j].offset = sLog[i].offset}) = 1

\* C1 amended: as stated, except that the non-2xx response with another status
\* ends the request with the 502 at once, without any further attempt; it is
\* the only attempt for its page exactly when it answers the first attempt,
\* and the second or third when it follows retried 5xx/429 responses.
C1_RetryPolicy ==
  /\ RetryDiscipline
  /\ ThirdFailureEnds
  /\ \A i \in 1..Len(sLog) :
       OtherFailure(i) =>
         /\ i = Len(sLog) /\ SearchDone /\ Unavailable502
         /\ sResp.upstream = sLog[i].status
         /\ Cardinality({j \in 1..Len(sLog) : sLog[j].offset = sLog[i].offset})
              = sLog[i].attempt + 1

\* a page was tried three times, each answered 5xx/429, and the request ended
C1_Witness ==
  /\ SearchDone /\ Unavailable502
  /\ Len(sLog) >= 3
  /\ sLog[Len(sLog)].attempt = 2
  /\ sLog[Len(sLog)].status = 503
  /\ sLog[Len(sLog) - 1].status = 429

\* the number of distinct pages requested so far
PagesRequested == Cardinality({sLog[i].offset : i \in 1..Len(sLog)})

\* pages are requested one after another at offsets 0, 200, 400, ...: only the
\* last fetch issued can be in flight, the first fetch is for offset 0, and a
\* fetch for the next offset is a first attempt issued after a 2xx response to
\* the previous page whose posts have been matched
SequentialPages ==
  /\ \A i \in 1..Len(sLog) :
       /\ sLog[i].offset = 200 * (Cardinality({sLog[j].offset : j \in 1..i}) - 1)
       /\ i < Len(sLog) => sLog[i].outcome = "response"
       /\ (i > 1 /\ sLog[i].offset # sLog[i - 1].offset) =>
            /\ sLog[i].offset = sLog[i - 1].offset + 200
            /\ sLog[i].attempt = 0
            /\ sLog[i - 1].status \in 200..299
            /\ sLog[i - 1].got = "array"
  /\ LET needle == ToLower(Trim(sReq.q))
         hit(post) == PostMatches(post, needle)
     IN sMatched = SelectSeq(sSeen, hit)
  /\ Len(sSeen) = SumSeq([i \in 1..Len(sLog) |-> sLog[i].n])

\* at most ceil(sample / 200) pages, hence at most 3 * ceil(sample / 200) fetches
BoundedPages ==
  LET sample == SearchSample(sReq)
  IN /\ sample.nan => sLog = <<>>
     /\ ~sample.nan =>
          /\ 200 * (PagesRequested - 1) < sample.v \/ PagesRequested = 0
          /\ 200 * Len(sLog) < 3 * (sample.v + 200)

\* C2: pages are requested strictly one after another at offsets 0, 200, ...,
\* page N+1 only after page N's response was received and matched, at most
\* ceil(sample / 200) pages are requested, and every search ends.
C2_SequentialAndFinite ==
  /\ [](SequentialPages /\ BoundedPages)
  /\ <>(sPc = "done")

\* two pages were requested, the second after a retried first one
C2_Witness ==
  /\ SearchDone
  /\ PagesRequested = 2
  /\ Len(sLog) >= 3
  /\ sLog[1].offset = 0 /\ sLog[Len(sLog)].offset = 200

\* the posts returned are the normalized first `n` matched posts
ReturnsFirstMatched(n) ==
  /\ Len(sResp.posts) = n
  /\ \A j \in 1..n : sResp.posts[j] = NormalizePost(sMatched[j])

\* C3: a 2xx page that is an empty array or not an array stops the loop: it is
\* the last fetch, and the request completes with a 200 whose posts are the
\* posts matched on the earlier pages and whose rows come from them.
C3_EmptyPageStops ==
  \A i \in 1..Len(sLog) :
    (/\ sLog[i].outcome = "response"
     /\ sLog[i].status \in 200..299
     /\ (sLog[i].got = "nonarray" \/ (sLog[i].got = "array" /\ sLog[i].n = 0)))
    => /\ i = Len(sLog)
       /\ SearchDone
       /\ sResp.status = 200 /\ ~sResp.error
       /\ ReturnsFirstMatched(Len(sMatched))
       /\ sResp.summary.totalHashtags = Len(sResp.rows)
       /\ (sMatched = <<>> => sResp.rows = <<>>)

\* an empty second page ended a search that had matched posts on the first
C3_Witness ==
  /\ SearchDone
  /\ Len(sLog) >= 2
  /\ sLog[Len(sLog)].offset = 200
  /\ sLog[Len(sLog)].got = "array" /\ sLog[Len(sLog)].n = 0
  /\ sResp.status = 200
  /\ Len(sResp.posts) = 2

\* the number of (post, tag) occurrences of `tag` among the returned posts
TagOccurrences(tag) ==
  Cardinality({ij \in (1..Len(sResp.posts)) \X (1..4) :
                 /\ ij[2] <= Len(sResp.posts[ij[1]].hashtags)
                 /\ sResp.posts[ij[1]].hashtags[ij[2]] = tag})

\* C4: while a fetch is outstanding or about to be retried, fewer than
\* `sample` posts have been matched (so no page is requested once `sample`
\* is reached); a successful response returns exactly the first
\* min(sample, matches) matched posts, in fetch order, and every row counts
\* occurrences among those posts only.
C4_StopsAtSample ==
  LET sample == SearchSample(sReq)
  IN /\ (handler = "search" /\ sPc \in {"await", "backoff"}) =>
          (~sample.nan /\ Len(sMatched) < sample.v)
     /\ (SearchDone /\ sResp.status = 200) =>
          /\ (sample.nan => sResp.posts = <<>>)
          /\ (~sample.nan =>
                /\ ReturnsFirstMatched(Min2(sample.v, Len(sMatched)))
                /\ Len(sResp.posts) <= sample.v)
          /\ \A r \in 1..Len(sResp.rows) :
               sResp.rows[r].posts = TagOccurrences(Tail(sResp.rows[r].hashtag))

\* the loop stopped before its last page because `sample` posts had matched,
\* and the matched posts beyond `sample` were dropped
C4_Witness ==
  /\ SearchDone /\ sResp.status = 200
  /\ ~SearchSample(sReq).nan
  /\ Len(sMatched) > SearchSample(sReq).v
  /\ Len(sResp.posts) = SearchSample(sReq).v
  /\ 200 * PagesRequested < SearchSample(sReq).v
  /\ sResp.rows # <<>>

\* the request names a platform other than instagram
OtherPlatformRequested ==
  /\ handler = "search"
  /\ sReq.platform \in {<<"t", "i", "k", "t", "o", "k">>,
                        <<"s", "n", "a", "p", "c", "h", "a", "t">>}

\* C5 as stated: a search for a platform other than instagram ends with the
\* 501, whatever the other parameters are, and issues no fetch.
C5_AsStated ==
  (OtherPlatformRequested /\ sPc = "done") => (sResp.status = 501 /\ sLog = <<>>)

\* C5 amended: a search for a platform other than instagram whose q is not
\* empty ends with the 501, whatever the other parameters and the
\* configuration are, and issues no fetch; when q is missing or blank the
\* request ends with the 400 validation failure instead (still no fetch).
C5_NotImplemented ==
  OtherPlatformRequested =>
    /\ sLog = <<>>
    /\ sPc \in {"start", "done"}
    /\ sPc = "done" =>
         /\ sResp.error
         /\ (Trim(sReq.q) # <<>> => (sResp.status = 501 /\ sResp.provider = "none"))
         /\ (Trim(sReq.q) = <<>> => sResp.status = 400)

\* snapchat was asked for, with no configuration at all, and the 501 came back
C5_Witness ==
  /\ sPc = "done"
  /\ handler = "search"
  /\ sReq.platform = <<"s", "n", "a", "p", "c", "h", "a", "t">>
  /\ env.APIFY_TOKEN = <<>>
  /\ sResp.status = 501

(***************************************************************************)
(* Properties of the configuration check and of the handlers' endings      *)
(***************************************************************************)
\* discover finds no dataset identifier or no token (it trims what it reads)
DiscoverConfigAbsent ==
  /\ handler = "discover"
  /\ Trim(env.APIFY_DATASET_ID) = <<>> \/ Trim(env.APIFY_TOKEN) = <<>>

\* the search finds no dataset identifier, in the environment or in the
\* request, or no token
SearchConfigAbsent ==
  /\ handler = "search"
  /\ \/ env.APIFY_DATASET_ID = <<>> /\ sReq.datasetId = <<>>
     \/ env.APIFY_TOKEN = <<>>

\* no fetch was issued and none is being retried
NoFetchAtAll == sLog = <<>> /\ dLog = <<>> /\ sPc # "backoff"

\* C6 as stated: in discover and in the search alike, a request that finds
\* the dataset identifier or the token absent ends with the 500 configuration
\* failure, and no fetch is issued for it.
C6_AsStated ==
  /\ (DiscoverConfigAbsent \/ SearchConfigAbsent) => NoFetchAtAll
  /\ (DiscoverConfigAbsent /\ dPc = "done") => dResp.status = 500
  /\ (SearchConfigAbsent /\ sPc = "done") => sResp.status = 500

\* C6: when the dataset identifier or the token is absent no fetch is ever
\* issued and nothing is retried; discover ends with the 500 configuration
\* failure; the search ends with it when q is not blank and the platform is
\* instagram, with the 400 validation failure when q is blank, and with the
\* 501 failure when q is not blank and the platform is another one.
C6_ConfigurationFailure ==
  /\ (DiscoverConfigAbsent \/ SearchConfigAbsent) => NoFetchAtAll
  /\ (DiscoverConfigAbsent /\ dPc # "start") =>
       /\ dPc = "done"
       /\ dResp = DiscoverError(500, MsgNotConfigured, "none", 0)
  /\ (SearchConfigAbsent /\ sPc # "start") =>
       /\ sPc = "done"
       /\ sResp.error
       /\ sResp.status = (IF Trim(sReq.q) = <<>> THEN 400
                          ELSE IF ToLower(sReq.platform) \notin {NoText, Instagram} THEN 501
                          ELSE 500)
       /\ sResp.status = 500 => sResp.message = MsgNotConfigured

\* a search for instagram with a query, the token configured and no dataset
\* identifier anywhere, has ended with the configuration failure
C6_Witness ==
  /\ handler = "search"
  /\ sPc = "done"
  /\ env.APIFY_DATASET_ID = <<>> /\ sReq.datasetId = <<>>
  /\ env.APIFY_TOKEN # <<>>
  /\ Trim(sReq.q) # <<>>
  /\ sResp.status = 500
  /\ sLog = <<>>

\* C7 as stated: whatever the provider does, each of the three handlers
\* ends by returning a response; no exception escapes a handler.
C7_AsStated ==
  /\ dThrown = ""
  /\ dPc # "threw"
  /\ sPc = "done" => sResp.status # 0
  /\ dPc = "done" => dResp.status # 0
  /\ gPc = "done" => gResp.status # 0

(***************************************************************************)
(* Properties of generateHashtags                                          *)
(***************************************************************************)
\* POST has answered 200: generateHashtags was called with gLimit
Generated == handler = "generate" /\ gPc = "done" /\ gResp.status = 200

\* C8: the sequence generateHashtags returns is never longer than the max
\* it is given (when that max is NaN it returns nothing).
C8_LengthAtMostMax ==
  Generated =>
    IF gLimit.nan THEN gResp.hashtags = <<>> ELSE Len(gResp.hashtags) <= gLimit.v

\* a request for two hashtags got two, on a platform that has more to offer
C8_Witness ==
  /\ Generated
  /\ gReq.maxHashtags = JNum(2)
  /\ gReq.keywords.t = "arr"
  /\ gLimit = Num(2)
  /\ Len(gResp.hashtags) = 2

\* C9 as stated: the sequence generateHashtags returns holds no hashtag twice,
\* whatever the topic.
C9_AsStated == Generated => NoDup(gResp.hashtags)

\* "#" followed by one or more letters or digits, none of them upper-case
WellFormedTag(h) ==
  /\ Len(h) >= 2
  /\ h[1] = "#"
  /\ \A j \in 2..Len(h) : IsLetterOrDigit(h[j]) /\ h[j] \notin UpperLetters

\* C10: every element generateHashtags returns is "#" followed by one or
\* more letters or digits and nothing else, and is lower-cased.
C10_WellFormedTags ==
  Generated => \A i \in 1..Len(gResp.hashtags) : WellFormedTag(gResp.hashtags[i])

\* a topic with a word that is nothing but the suffix "ing" and a word with
\* punctuation and capitals, and keywords with punctuation, got its hashtags
C10_Witness ==
  /\ Generated
  /\ gReq.topic = JStr(<<"i", "n", "g", " ", "P", "r", "o", "-", "T", "i", "p", "!", "!">>)
  /\ gReq.keywords.t = "arr"
  /\ Contains(gResp.hashtags, <<"#", "i", "n", "g">>)
  /\ Contains(gResp.hashtags, <<"#", "p", "r", "o">>)
  /\ Len(gResp.hashtags) > 2

(***************************************************************************)
(* Properties of the limit POST resolves                                   *)
(***************************************************************************)
\* the fixed limits, as the specification lists them
ListedLimit(platform) ==
  CASE platform = Instagram -> 25
    [] platform = TikTok -> 20
    [] platform = YouTube -> 12
    [] platform = Twitter -> 6
    [] platform = LinkedIn -> 10
    [] platform = Facebook -> 15

\* C11: a successful generation never returns more hashtags than the fixed
\* limit of the platform it resolved (instagram 25, tiktok 20, youtube 12,
\* twitter 6, linkedin 10, facebook 15), whatever maxHashtags is; the limit
\* in force is the platform limit when maxHashtags is absent or above it,
\* maxHashtags when it is between 1 and the platform limit, and 1 when it is
\* below 1.
C11_PlatformCap ==
  Generated =>
    /\ gResp.platform \in Range(Platforms)
    /\ Len(gResp.hashtags) <= ListedLimit(gResp.platform)
    /\ gReq.maxHashtags.t = "null" => gLimit = Num(ListedLimit(gResp.platform))
    /\ gReq.maxHashtags.t = "num" =>
         gLimit = Num(IF gReq.maxHashtags.v > ListedLimit(gResp.platform)
                      THEN ListedLimit(gResp.platform)
                      ELSE IF gReq.maxHashtags.v < 1 THEN 1 ELSE gReq.maxHashtags.v)

\* twitter was asked for 30 hashtags and returned its 6
C11_Witness ==
  /\ Generated
  /\ gResp.platform = Twitter
  /\ gReq.maxHashtags = JNum(30)
  /\ Len(gResp.hashtags) = 6

(***************************************************************************)
(* Properties of the order of the hashtags                                 *)
(***************************************************************************)
\* the words of the topic of the request
TopicWords == toSlugWords(gReq.topic.s)

\* "#" and the i-th word of the topic
RootTag(i) == <<"#">> \o TopicWords[i]

\* C12 as stated: the hashtags of the first k = min(2, number of topic
\* words) topic words are at indices 0..k-1 of what generateHashtags
\* returns, in topic order, whatever number the requested maximum is.
C12_AsStated ==
  (Generated /\ ~gLimit.nan) =>
    /\ Len(gResp.hashtags) >= Min2(2, Len(TopicWords))
    /\ \A i \in 1..Min2(2, Len(TopicWords)) : gResp.hashtags[i] = RootTag(i)

\* C12: what generateHashtags returns begins with the hashtags of the first
\* min(k, max) topic words, in topic order, k being min(2, number of topic
\* words), whatever their score and the platform; with max = 1 and two topic
\* words only the first one is returned, and a max that is no number returns
\* nothing.
C12_TopicRootsFirst ==
  Generated =>
    IF gLimit.nan THEN gResp.hashtags = <<>>
    ELSE /\ Len(gResp.hashtags) >= Min2(gLimit.v, Min2(2, Len(TopicWords)))
         /\ \A i \in 1..Min2(gLimit.v, Min2(2, Len(TopicWords))) :
              gResp.hashtags[i] = RootTag(i)

\* a topic whose first word scores 0 on linkedin has it first all the same,
\* before its second word and before a tag that scores more
C12_Witness ==
  /\ Generated
  /\ gResp.platform = LinkedIn
  /\ gReq.topic.s = s_photosynthesis \o <<" ", "c", "a", "t">>
  /\ Len(gResp.hashtags) > 2
  /\ gResp.hashtags[1] = <<"#">> \o s_photosynthesis
  /\ gResp.hashtags[2] = <<"#", "c", "a", "t">>
  /\ scoreHashtag(gResp.hashtags[1], LinkedIn) = 0
  /\ scoreHashtag(gResp.hashtags[3], LinkedIn) > 0

(***************************************************************************)
(* Properties of the helpers                                               *)
(***************************************************************************)
\* the helper `fn` was called and has returned
Returned(fn) == handler = "unit" /\ uPc = "done" /\ uCall.fn = fn

\* the letters and digits of a text, in order
LettersAndDigits(word) == SelectSeq(word, IsLetterOrDigit)

\* C13 as stated: toHashtag(word) is "#" followed by the letters and digits
\* of word in lower case, every other character removed, and is the empty
\* string when word holds no letter and no digit.
C13_AsStated ==
  Returned("toHashtag") =>
    uRet.text = (IF LettersAndDigits(uCall.text) = <<>> THEN <<>>
                 ELSE <<"#">> \o ToLower(LettersAndDigits(uCall.text)))

\* C14 as stated: norm is idempotent; norm of what norm returned is what
\* norm returned, for every text.
C14_AsStated == Returned("norm") => norm(uRet.text) = uRet.text

(***************************************************************************)
(* Properties of the buckets of discover                                   *)
(***************************************************************************)
DiscoverAnswered == handler = "discover" /\ dPc = "done" /\ dResp.status = 200

\* the filtered posts that carry `tag`, in order
PostsTagged(tag) ==
  SelectSeq(dFiltered, LAMBDA post : Contains(TagsOf(post, TextOf(post.caption)), tag))

\* round(sum / n), 0 when n is 0
MeanOrZero(sum, n) == IF n = 0 THEN 0 ELSE RoundDiv(sum, n)

\* C15 as stated: every bucket discover returns has avgLikes =
\* round(likesSum / postCount) and avgComments = round(commentsSum /
\* postCount), the sums and the count being taken over the filtered posts
\* that carry the bucket's tag, with likes and comments that are missing or
\* no finite number counted as 0, and 0 for a bucket of no post.
C15_AsStated ==
  DiscoverAnswered =>
    \A k \in 1..Len(dResp.items) :
      \A posts \in {PostsTagged(dResp.items[k].tag)} :
        /\ dResp.items[k].avgLikes =
             MeanOrZero(SumSeq([i \in 1..Len(posts) |-> likeNum(posts[i])]), Len(posts))
        /\ dResp.items[k].avgComments =
             MeanOrZero(SumSeq([i \in 1..Len(posts) |-> comNum(posts[i])]), Len(posts))

(***************************************************************************)
(* Properties of the validation of POST                                    *)
(***************************************************************************)
\* the topic of the body is missing or is the empty string
TopicMissingOrEmpty == gReq.topic.t # "str" \/ gReq.topic.s = <<>>

\* the body has a keywords field that is no array
KeywordsNotArray == gReq.keywords.t \notin {"null", "arr"}

\* C16 as stated: a generation request whose topic is missing or empty, or
\* whose keywords field is present and no array, is answered with the 400
\* validation failure and with no generation result.
C16_AsStated ==
  (handler = "generate" /\ gPc = "done" /\ gReq.json
     /\ (TopicMissingOrEmpty \/ KeywordsNotArray)) =>
    /\ gResp.status = 400
    /\ gResp.error = MsgInvalidPayload
    /\ gResp.hashtags = <<>> /\ gResp.caption = <<>> /\ gResp.variations = <<>>

(***************************************************************************)
(* Properties of what the responses disclose                               *)
(***************************************************************************)
\* every text in the response of the search
SearchRespTexts ==
  {sResp.datasetId}
  \cup {sResp.rows[i].hashtag : i \in 1..Len(sResp.rows)}
  \cup {TextOf(sResp.posts[i].caption) : i \in 1..Len(sResp.posts)}
  \cup UNION {Range(sResp.posts[i].hashtags) : i \in 1..Len(sResp.posts)}

\* every text in the response of discover
DiscoverRespTexts ==
  {dResp.datasetId}
  \cup {dResp.items[i].tag : i \in 1..Len(dResp.items)}
  \cup UNION {{TextOf(dResp.items[i].samples[j].caption) :
                 j \in 1..Len(dResp.items[i].samples)} : i \in 1..Len(dResp.items)}
  \cup UNION {{TextOf(dResp.items[i].samples[j].url) :
                 j \in 1..Len(dResp.items[i].samples)} : i \in 1..Len(dResp.items)}

\* the failures the search answers with: none of them is made from the token
SearchFailures ==
  {ErrorResp(400, MsgMissingQuery, "", 0), ErrorResp(501, MsgNotImplemented, "none", 0),
   ErrorResp(500, MsgNotConfigured, "none", 0), ErrorResp(502, MsgUnavailable, "", 0)}
  \cup {ErrorResp(502, MsgUnavailable, "Apify", st) : st \in Statuses}

\* the failures discover answers with
DiscoverFailures ==
  {DiscoverError(500, MsgNotConfigured, "none", 0)}
  \cup {DiscoverError(502, MsgUpstreamError, "apify", st) : st \in Statuses}

\* a token other than the configured one
OtherToken == <<"k", "e", "y">>

\* C17: no response of discover or of the search, success or failure, holds
\* the configured token, nor therefore the provider request URL, which
\* carries it; a failure is one of a fixed set of bodies, and a success of
\* the search is the body the same posts give under any other token.
C17_NoCredentialInResponse ==
  /\ (handler = "search" /\ sPc = "done") =>
       /\ SearchToken(env) # <<>> =>
            \A t \in SearchRespTexts : ~Includes(t, SearchToken(env))
       /\ IF sResp.error THEN sResp \in SearchFailures
          ELSE sResp = SearchSuccess(sMatched, sReq, [env EXCEPT !.APIFY_TOKEN = OtherToken])
  /\ (handler = "discover" /\ dPc = "done") =>
       /\ getEnv(env.APIFY_TOKEN) # <<>> =>
            \A t \in DiscoverRespTexts : ~Includes(t, getEnv(env.APIFY_TOKEN))
       /\ dResp.error => dResp \in DiscoverFailures

\* a search that sent its token to the provider has answered with posts, and
\* a discover that sent its token has answered with buckets
C17_Witness ==
  \/ /\ handler = "search" /\ sPc = "done"
     /\ sResp.status = 200
     /\ Len(sResp.posts) > 0
     /\ sLog[1].token = <<"t", "o", "k">>
     /\ sResp.datasetId # <<>>
  \/ /\ handler = "discover" /\ dPc = "done"
     /\ dResp.status = 200
     /\ Len(dResp.items) > 0
     /\ dLog[1].token = <<"t", "o", "k">>

\* the tag holds b2b, leadership or insights somewhere, in any case
HoldsLinkedInTerm(h) ==
  \/ Includes(ToLower(h), <<"b", "2", "b">>)
  \/ Includes(ToLower(h), s_leadership)
  \/ Includes(ToLower(h), <<"i", "n", "s", "i", "g", "h", "t", "s">>)

\* C18 as stated: the score of a hashtag on a platform is 2 if its length,
\* "#" included, is at most 8, plus 1 if it is at most 12, plus 2 if the tag
\* is one of the ten popular tags, plus 1 on twitter if the length is at
\* most 12, plus 1 on linkedin if the tag holds b2b, leadership or insights
\* anywhere in it, in any case.
C18_AsStated ==
  Returned("scoreHashtag") =>
    uRet.num = (IF Len(uCall.text) <= 8 THEN 2 ELSE 0)
               + (IF Len(uCall.text) <= 12 THEN 1 ELSE 0)
               + (IF uCall.text \in PopularTags THEN 2 ELSE 0)
               + (IF uCall.platform = Twitter /\ Len(uCall.text) <= 12 THEN 1 ELSE 0)
               + (IF uCall.platform = LinkedIn /\ HoldsLinkedInTerm(uCall.text) THEN 1 ELSE 0)

(***************************************************************************)
(* Properties of the ranking of the hashtags                               *)
(***************************************************************************)
\* the three pools in their order, each entry made a hashtag and lower-cased
\* (an entry that makes no hashtag is the empty text)
PoolTags ==
  With(buildKeywordSet(gReq.topic.s, gReq.keywords.a), LAMBDA words :
    With(words \o platformBoilerplate(gResp.platform) \o Derived(words), LAMBDA pool :
      [i \in 1..Len(pool) |-> ToLower(toHashtag(pool[i]))] \o <<>>))

\* the places of the pool tags' first occurrences
FirstPlaces(pool) ==
  {i \in 1..Len(pool) : pool[i] # <<>> /\ \A j \in 1..(i - 1) : pool[j] # pool[i]}

\* the index of the first occurrence of h in seq
FirstAt(seq, h) ==
  CHOOSE i \in 1..Len(seq) : seq[i] = h /\ \A j \in 1..(i - 1) : seq[j] # h

\* a tag of rank a comes before a tag of rank b; a rank is a score and the
\* place of a first occurrence
RanksBefore(a, b) == a[1] > b[1] \/ (a[1] = b[1] /\ a[2] < b[2])

\* the hashtags of the first two topic words
RootTags == {RootTag(i) : i \in 1..Min2(2, Len(TopicWords))}

\* what follows the topic-root prefix in the hashtags returned
AfterRoots == Drop(gResp.hashtags, Min2(2, Len(TopicWords)))

\* C19: in what generateHashtags returns, the elements after the topic-root
\* prefix are pool tags in non-increasing score order, two of equal score in
\* the order of their first occurrence in the pool union (keywords, then
\* boilerplate, then keyword + tips, guide, hacks); the cut to the maximum
\* removes a suffix of that order only: nothing left out comes before an
\* element returned, and nothing is left out when fewer than the maximum
\* are returned.
C19_RankedAndStable ==
  (Generated /\ ~gLimit.nan) =>
    With(PoolTags, LAMBDA pool :
      With(<<FirstPlaces(pool), RootTags>>, LAMBDA fr :
        With(AfterRoots, LAMBDA rest :
          With([i \in 1..Len(rest) |->
                  IF \E p \in fr[1] : pool[p] = rest[i]
                  THEN <<scoreHashtag(rest[i], gResp.platform),
                         CHOOSE p \in fr[1] : pool[p] = rest[i]>>
                  ELSE <<0, 0>>] \o <<>>,
               LAMBDA key :
                 With({<<scoreHashtag(pool[p], gResp.platform), p>> :
                         p \in {q \in fr[1] : pool[q] \notin fr[2]
                                              /\ ~Contains(gResp.hashtags, pool[q])}},
                      LAMBDA cut :
                        /\ \A i \in 1..Len(rest) : key[i][2] # 0 /\ rest[i] \notin fr[2]
                        /\ \A i, j \in 1..Len(rest) : i < j => RanksBefore(key[i], key[j])
                        /\ Len(gResp.hashtags) < gLimit.v => cut = {}
                        /\ \A c \in cut : \A i \in 1..Len(rest) : RanksBefore(key[i], c))))))

\* hashtags were cut to the maximum; after the roots come two tags of equal
\* score in pool order and, later, a tag of lower score
C19_Witness ==
  /\ Generated
  /\ ~gLimit.nan
  /\ Len(gResp.hashtags) = gLimit.v
  /\ Len(AfterRoots) >= 3
  /\ \E i \in 1..(Len(AfterRoots) - 1) :
       /\ scoreHashtag(AfterRoots[i], gResp.platform)
            = scoreHashtag(AfterRoots[i + 1], gResp.platform)
       /\ FirstAt(PoolTags, AfterRoots[i]) < FirstAt(PoolTags, AfterRoots[i + 1])
  /\ scoreHashtag(AfterRoots[1], gResp.platform)
       > scoreHashtag(AfterRoots[Len(AfterRoots)], gResp.platform)
  /\ \E h \in Range(PoolTags) : h # <<>> /\ ~Contains(gResp.hashtags, h)

(***************************************************************************)
(* Properties of the keyword set                                           *)
(***************************************************************************)
\* a sequence without the repetitions of its elements, first occurrences kept
KeepFirsts(seq) ==
  With(seq, LAMBDA q :
    SelectIdx(q, [i \in 1..Len(q) |-> \A j \in 1..(i - 1) : q[j] # q[i]]))

\* the additional candidates a word generates: the word without a final
\* "ing", the word + "s" unless it ends in "s", the word + "er" unless it ends
\* in "er"
MorphVariants(w) ==
  (IF EndsWith(w, <<"i", "n", "g">>) THEN <<SubSeq(w, 1, Len(w) - 3)>> ELSE <<>>)
  \o (IF EndsWith(w, <<"s">>) THEN <<>> ELSE <<w \o <<"s">>>>)
  \o (IF EndsWith(w, <<"e", "r">>) THEN <<>> ELSE <<w \o <<"e", "r">>>>)

\* the words of the topic, then those of the explicit keywords, first seen first
BaseWords ==
  KeepFirsts(toSlugWords(uCall.text)
             \o FlatCat([i \in 1..Len(uCall.keywords) |-> toSlugWords(uCall.keywords[i])]))

\* the base words, then the variants in the order of the words that generate
\* them, first seen first
KeywordCandidates ==
  With(BaseWords, LAMBDA base :
    KeepFirsts(base \o FlatCat([i \in 1..Len(base) |-> MorphVariants(base[i])])))

\* C20: buildKeywordSet returns at most 25 strings, none of them twice: the
\* base words (topic words, then keyword words, first seen first), then the
\* variants in the order of the words that generate them; of more than 25
\* candidates it returns exactly the first 25.
C20_KeywordSet ==
  Returned("buildKeywordSet") =>
    With(<<BaseWords, KeywordCandidates>>, LAMBDA bc :
      /\ Len(uRet.list) <= 25
      /\ NoDup(uRet.list)
      /\ Take(uRet.list, Len(bc[1])) = Take(bc[1], 25)
      /\ uRet.list = Take(bc[2], 25)
      /\ Len(bc[2]) > 25 => Len(uRet.list) = 25)

\* topic and keywords gave ten base words and more than 25 candidates; 25
\* came back, variants among them
C20_Witness ==
  /\ Returned("buildKeywordSet")
  /\ Len(BaseWords) >= 10
  /\ Len(KeywordCandidates) > 25
  /\ Len(uRet.list) = 25
  /\ uRet.list[1] = <<"c", "a", "t">>
  /\ Contains(uRet.list, <<"b", "a", "k", "i", "n", "g", "e", "r">>)

(***************************************************************************)
(* Properties of the ranking and the summary of discover                   *)
(***************************************************************************)
\* item a ranks strictly before item b: more posts, or as many and a
\* higher avgLikes
Outranks(a, b) == a.posts > b.posts \/ (a.posts = b.posts /\ a.avgLikes > b.avgLikes)

\* the bucket as the item discover makes of it, up to its rank key
KeyOf(b) == [posts |-> b.count, avgLikes |-> MeanOrZero(b.totalLikes, b.count)]

\* C21: the ranked items discover returns number at most limit, limit
\* being in 1..100 and 20 when neither limit nor count is given; they are
\* ordered by posts descending, ties by avgLikes descending; and they are
\* the top of that order: no bucket left out outranks an item returned.
C21_TopRanked ==
  DiscoverAnswered =>
    With(<<dResp.items, dBuckets>>, LAMBDA ib :
      /\ dResp.limit \in 1..MaxLimit
      /\ (dReq.limit = Absent /\ dReq.count = Absent) => dResp.limit = DEFAULT_LIMIT
      /\ Len(ib[1]) = Min2(dResp.limit, Len(ib[2]))
      /\ \A i, j \in 1..Len(ib[1]) : i < j => ~Outranks(ib[1][j], ib[1][i])
      /\ \A i \in 1..Len(ib[1]) :
           \E k \in 1..Len(ib[2]) :
             /\ ib[2][k].tag = ib[1][i].tag
             /\ KeyOf(ib[2][k]) = [posts |-> ib[1][i].posts, avgLikes |-> ib[1][i].avgLikes]
      /\ \A i, j \in 1..Len(ib[1]) : i # j => ib[1][i].tag # ib[1][j].tag
      /\ \A k \in 1..Len(ib[2]) :
           (\A i \in 1..Len(ib[1]) : ib[1][i].tag # ib[2][k].tag) =>
             \A i \in 1..Len(ib[1]) : ~Outranks(KeyOf(ib[2][k]), ib[1][i]))

\* discover returned two items that tie on posts and differ in avgLikes
\* and left a third bucket out
C21_Witness ==
  /\ DiscoverAnswered
  /\ Len(dResp.items) = 2
  /\ Len(dBuckets) = 3
  /\ dResp.items[1].posts = dResp.items[2].posts
  /\ dResp.items[1].avgLikes > dResp.items[2].avgLikes
  /\ dBuckets[1].tag = dResp.items[2].tag
\* the filtered posts that carry the tag of at least one of `items`
PostsOfItems(items) ==
  SelectSeq(dFiltered, LAMBDA post :
    \E i \in 1..Len(items) : Contains(TagsOf(post, TextOf(post.caption)), items[i].tag))

\* C22 as stated: every field of the summary of discover is computed over
\* the ranked items returned; totalTags is their number, totalPosts counts
\* the posts that contribute to them, averageLikes and averageComments are
\* the rounded means of their avgLikes and avgComments, 0 when there are none.
C22_AsStated ==
  DiscoverAnswered =>
    With(dResp.items, LAMBDA items :
      /\ dResp.summary.totalTags = Len(items)
      /\ dResp.summary.totalPosts = Len(PostsOfItems(items))
      /\ dResp.summary.averageLikes =
           MeanOrZero(SumSeq([i \in 1..Len(items) |-> items[i].avgLikes]), Len(items))
      /\ dResp.summary.averageComments =
           MeanOrZero(SumSeq([i \in 1..Len(items) |-> items[i].avgComments]), Len(items)))

\* the part of C22 the summary does satisfy: the two averages
C22_MeansOverReturned ==
  DiscoverAnswered =>
    With(dResp.items, LAMBDA items :
      /\ dResp.summary.averageLikes =
           MeanOrZero(SumSeq([i \in 1..Len(items) |-> items[i].avgLikes]), Len(items))
      /\ dResp.summary.averageComments =
           MeanOrZero(SumSeq([i \in 1..Len(items) |-> items[i].avgComments]), Len(items)))
\* C23 as stated: during the aggregation pass of discover each bucket's
\* count, sum of likes and sum of comments never decrease from one
\* processed post to the next, whatever corpus the provider returns.
C23_AsStated ==
  [][\A i \in 1..Len(dBuckets) :
       /\ i <= Len(dBuckets')
       /\ dBuckets'[i].tag = dBuckets[i].tag
       /\ dBuckets'[i].count >= dBuckets[i].count
       /\ dBuckets'[i].totalLikes >= dBuckets[i].totalLikes
       /\ dBuckets'[i].totalComments >= dBuckets[i].totalComments]_vars

\* the part of C23 that holds whatever the like counts: buckets stay in
\* place and their count never decreases
C23_CountsNeverDecrease ==
  [][\A i \in 1..Len(dBuckets) :
       /\ i <= Len(dBuckets')
       /\ dBuckets'[i].tag = dBuckets[i].tag
       /\ dBuckets'[i].count >= dBuckets[i].count]_vars
\* the samples of the first posts, of those processed so far, that carry `tag`
FirstSamples(filtered, idx, tag) ==
  With(SelectSeq(SubSeq(filtered, 1, idx),
                 LAMBDA post : Contains(TagsOf(post, TextOf(post.caption)), tag)),
       LAMBDA posts : [i \in 1..Min2(3, Len(posts)) |-> SampleOf(posts[i])] \o <<>>)

\* C24 as stated: at every step of the aggregation pass of discover each
\* bucket holds exactly min(3, postCount) samples, which are the first
\* filtered posts, in corpus order, that carry the bucket's tag; and a
\* sample once stored is never replaced or removed.
C24_AsStated ==
  [][/\ \A i \in 1..Len(dBuckets') :
          /\ Len(dBuckets'[i].samplePosts) = Min2(3, dBuckets'[i].count)
          /\ dBuckets'[i].samplePosts = FirstSamples(dFiltered', dIdx', dBuckets'[i].tag)
     /\ \A i \in 1..Len(dBuckets) :
          /\ i <= Len(dBuckets')
          /\ SubSeq(dBuckets'[i].samplePosts, 1, Len(dBuckets[i].samplePosts))
               = dBuckets[i].samplePosts]_vars

\* the part of C24 that holds also for a post that lists a tag twice: the
\* number of samples is min(3, count) and stored samples stay in place
C24_SamplesKept ==
  [][/\ \A i \in 1..Len(dBuckets') :
          Len(dBuckets'[i].samplePosts) = Min2(3, dBuckets'[i].count)
     /\ \A i \in 1..Len(dBuckets) :
          /\ i <= Len(dBuckets')
          /\ SubSeq(dBuckets'[i].samplePosts, 1, Len(dBuckets[i].samplePosts))
               = dBuckets[i].samplePosts]_vars
(***************************************************************************)
(* Properties of the aggregation of the search                             *)
(***************************************************************************)
SearchAnswered == SearchDone /\ sResp.status = 200

\* the posts among `posts` that carry `tag`, in order
Carrying(posts, tag) == SelectSeq(posts, LAMBDA post : Contains(post.hashtags, tag))

RECURSIVE SumRange(_, _, _)
\* s[lo] + ... + s[hi], summed by halves
SumRange(s, lo, hi) ==
  IF lo > hi THEN 0
  ELSE IF lo = hi THEN s[lo]
  ELSE SumRange(s, lo, (lo + hi) \div 2) + SumRange(s, (lo + hi) \div 2 + 1, hi)

\* the sum of a sequence of any length
SumOf(s) == With(s \o <<>>, LAMBDA t : SumRange(t, 1, Len(t)))

\* round(sum / n) over the known values of `vals`, null when none is known
KnownMean(vals) ==
  With(SelectSeq(vals, LAMBDA x : x.known), LAMBDA known :
    IF known = <<>> THEN Unknown
    ELSE Known(RoundDiv(SumOf([i \in 1..Len(known) |-> known[i].v]), Len(known))))

\* every entry of the map has likesN <= posts and commentsN <= posts
KnownWithinPosts(map) ==
  \A i \in 1..Len(map) : map[i].likesN <= map[i].posts /\ map[i].commentsN <= map[i].posts

RECURSIVE AggChecked(_, _, _, _)
\* the aggregation loop over posts[lo..hi] from acc.map, with acc.ok telling
\* whether KnownWithinPosts held after every post so far
AggChecked(acc, posts, lo, hi) ==
  With(<<lo, hi, (lo + hi) \div 2>>, LAMBDA r :
    IF r[1] > r[2] THEN acc
    ELSE IF r[1] = r[2]
    THEN With(AggRange(acc.map, posts, r[1], r[1]), LAMBDA next :
           [map |-> next, ok |-> acc.ok /\ KnownWithinPosts(next)])
    ELSE With(AggChecked(acc, posts, r[1], r[3]), LAMBDA first :
           AggChecked(first, posts, r[3] + 1, r[2])))

\* C25 as stated: in a 200 response of the search a row's avgLikes is
\* round(sum of likes / number of posts) over the posts of its tag whose
\* likes are known, null when none is known, and likewise avgComments;
\* posts with unknown likes count toward the row's posts; and likesN <=
\* posts and commentsN <= posts hold for every tag after every post of the
\* aggregation.
C25_AsStated ==
  SearchAnswered =>
    With(<<sResp.posts, sResp.rows>>, LAMBDA pr :
      /\ \A k \in 1..Len(pr[2]) :
           With(Carrying(pr[1], Tail(pr[2][k].hashtag)), LAMBDA of :
             /\ pr[2][k].avgLikes = KnownMean([i \in 1..Len(of) |-> of[i].likes])
             /\ pr[2][k].avgComments = KnownMean([i \in 1..Len(of) |-> of[i].comments])
             /\ pr[2][k].posts >= Len(of))
      /\ AggChecked([map |-> <<>>, ok |-> TRUE], pr[1], 1, Len(pr[1])).ok)

\* the number of times `post` lists `tag`
Listed(post, tag) == Cardinality({i \in 1..Len(post.hashtags) : post.hashtags[i] = tag})

\* round(sum / n) over the known values of `vals`, the value of post i
\* taken times[i] times; null when none is known
KnownMeanTimes(vals, times) ==
  With(SelectIdx([i \in 1..Len(vals) |-> [v |-> vals[i].v, n |-> times[i]]],
                 [i \in 1..Len(vals) |-> vals[i].known]), LAMBDA known :
    IF known = <<>> THEN Unknown
    ELSE Known(RoundDiv(SumOf([i \in 1..Len(known) |-> known[i].v * known[i].n]),
                        SumOf([i \in 1..Len(known) |-> known[i].n]))))

\* the part of C25 that holds also for a post that lists a tag twice: the
\* averages are over known values only, each post weighing as often as it
\* lists the tag, and likesN, commentsN never exceed posts
C25_KnownOnly ==
  SearchAnswered =>
    With(<<sResp.posts, sResp.rows>>, LAMBDA pr :
      /\ \A k \in 1..Len(pr[2]) :
           With(Tail(pr[2][k].hashtag), LAMBDA tag :
             With(Carrying(pr[1], tag), LAMBDA of :
               With([i \in 1..Len(of) |-> Listed(of[i], tag)], LAMBDA times :
                 /\ pr[2][k].avgLikes =
                      KnownMeanTimes([i \in 1..Len(of) |-> of[i].likes], times)
                 /\ pr[2][k].avgComments =
                      KnownMeanTimes([i \in 1..Len(of) |-> of[i].comments], times)
                 /\ pr[2][k].posts = SumOf(times))))
      /\ AggChecked([map |-> <<>>, ok |-> TRUE], pr[1], 1, Len(pr[1])).ok)
(***************************************************************************)
(* Properties of the variations of POST                                    *)
(***************************************************************************)
\* the number of places of `s` that hold `x`
CountIn(s, x) == Cardinality({i \in 1..Len(s) : s[i] = x})

\* a and b hold the same elements, each as many times
IsPermutation(a, b) ==
  /\ Len(a) = Len(b)
  /\ \A x \in Range(a) \cup Range(b) : CountIn(a, x) = CountIn(b, x)

\* the hashtag block buildCaption puts at the end of a caption of the
\* platform of the response
HashBlock(hashtags) ==
  IF hashtags = <<>> THEN <<>>
  ELSE (IF PLATFORM_STYLES(gResp.platform).addLineBreaks THEN <<"\n", "\n">> ELSE <<" ">>)
       \o JoinWith(hashtags, <<" ">>)

\* C26: a successful generation result holds exactly 2 variations; the
\* hashtags of each are a permutation of the primary hashtags, with the same
\* multiplicities; the caption of each ends with its own hashtags in its own
\* order; and the primary hashtags are still the ranked list generateHashtags
\* returned, which the primary caption ends with.
C26_Variations ==
  Generated =>
    With(<<gResp.hashtags, gResp.variations>>, LAMBDA hv :
      /\ Len(hv[2]) = 2
      /\ \A i \in 1..Len(hv[2]) :
           /\ IsPermutation(hv[2][i].hashtags, hv[1])
           /\ EndsWith(hv[2][i].caption, HashBlock(hv[2][i].hashtags))
      /\ hv[1] = generateHashtags(gReq.topic.s, gResp.platform, gLimit, gReq.keywords.a)
      /\ EndsWith(gResp.caption, HashBlock(hv[1])))

\* a result whose primary hashtags hold a tag twice and whose variations
\* are in two orders, both other than the ranked one
C26_Witness ==
  /\ Generated
  /\ ~NoDup(gResp.hashtags)
  /\ gResp.variations[1].hashtags # gResp.hashtags
  /\ gResp.variations[2].hashtags # gResp.hashtags
  /\ gResp.variations[1].hashtags # gResp.variations[2].hashtags
(***************************************************************************)
(* The post count of a tag, in both aggregations                           *)
(***************************************************************************)
\* the counts discover reports are counts of posts
DiscoverCountsPosts ==
  DiscoverAnswered =>
    \A k \in 1..Len(dResp.items) :
      dResp.items[k].posts = Len(PostsTagged(dResp.items[k].tag))

\* the counts the search reports are counts of posts
SearchCountsPosts ==
  SearchAnswered =>
    With(<<sResp.posts, sResp.rows>>, LAMBDA pr :
      \A k \in 1..Len(pr[2]) :
        pr[2][k].posts = Len(Carrying(pr[1], Tail(pr[2][k].hashtag))))

\* C27 as stated: in discover and in the paginated search the post count
\* reported for a tag is the number of distinct contributing posts that
\* carry the tag, also when a post lists the tag more than once or in two
\* spellings that normalize to the same tag.
C27_AsStated == DiscoverCountsPosts /\ SearchCountsPosts
(***************************************************************************)
(* A fetch of the search that is aborted or fails                          *)
(***************************************************************************)
\* fetch i of the log was aborted by its timer or failed with a network error
Rejected(i) == sLog[i].outcome \in {"error", "abort"}

\* C28: in the paginated search a fetch that is aborted by its timeout or
\* fails with a network error is the last fetch of the request (no further
\* attempt for its page, no further page) and the request ends with the 502
\* 'Upstream provider unavailable'; and whichever way the attempts end
\* (response, abort, error) no timeout timer is armed any more when the
\* search has returned, the timers armed before being those of the
\* attempts of the page in flight.
C28_RejectedFetchEnds ==
  /\ \A i \in 1..Len(sLog) :
       Rejected(i) =>
         /\ i = Len(sLog)
         /\ sPc = "done"
         /\ sResp = ErrorResp(502, MsgUnavailable, "", 0)
  /\ sPc = "done" => sTimers = {}
  /\ sPc \in {"await", "backoff"} => sTimers = 0..sAttempt

\* the search has returned after the abort of a retry on its second page:
\* three timers had been armed for the page
C28_Witness ==
  /\ SearchDone
  /\ Len(sLog) >= 4
  /\ sLog[Len(sLog)].outcome = "abort"
  /\ sLog[Len(sLog)].attempt = LastRetryAttempt
  /\ sLog[Len(sLog)].offset = pageLimit
  /\ sTimers = {}
(***************************************************************************)
(* The strings of the keyword set                                          *)
(***************************************************************************)
\* C29 as stated: every string buildKeywordSet returns is non-empty, for
\* every topic and keyword list, those that hold the word "ing" included.
C29_AsStated ==
  Returned("buildKeywordSet") => \A i \in 1..Len(uRet.list) : uRet.list[i] # <<>>

\* the part of C29 that holds: the only empty string of the set is the
\* variant of a base word "ing"
C29_EmptyOnlyFromIng ==
  Returned("buildKeywordSet") =>
    /\ \A i \in 1..Len(uRet.list) :
         uRet.list[i] = <<>> => Contains(BaseWords, <<"i", "n", "g">>)
    /\ \A i \in 1..Len(BaseWords) : BaseWords[i] # <<>>
(***************************************************************************)
(* The requests of the Hashtag Explorer page                               *)
(***************************************************************************)
\* C30: in the Hashtag Explorer page data, err and loading are written only
\* by the run of the effect that is active when it writes, whatever the order
\* in which the requests complete: a run whose effect has been cleaned up (the
\* query parameters changed, or the component unmounted) sets no state, and
\* every change of data, err or loading is the write of such a run.
C30_OnlyActiveRunWrites ==
  /\ [](pWrote.fields # {} => pMounted /\ pWrote.by = ActiveRun)
  /\ [][(pData' # pData \/ pErr' # pErr \/ pLoading' # pLoading) =>
          /\ pWrote'.fields # {}
          /\ pWrote'.by = ActiveRun'
          /\ pData' # pData => pData'.from = ActiveRun'
          /\ pErr' # pErr => pErr'.from \in {0, ActiveRun'}]_vars

\* the request of the first run has just completed, after the query
\* parameters changed and the second run set data: it was dropped, and
\* data, err and loading are as the second run left them
C30_Witness ==
  /\ handler = "page"
  /\ pMounted
  /\ Len(pRuns) = 2
  /\ pRuns[1].pc = "dropped"
  /\ pRuns[2].pc = "done"
  /\ ActiveRun = 2
  /\ pData = [from |-> 2, params |-> pParams]
  /\ pErr = NoErr
  /\ ~pLoading
  /\ pWrote = NoWrite
====
